---------------------------- MODULE Spec2Model ----------------------------
(*
  The tick-driven lane engine of olivia_efficacy: OctupQuadEngine (re.py,
  seal_re.py) driven by KernelAllocator (kernel_map.py, quma_d.py).

  Number representation.  The program computes in binary floating point.
  Here every real quantity is an exact decimal:
    - angles are integers in units of 1/DEG degree (1e-4 degree), so that
      45 * (ticks * 0.0102) is the integer 45 * (ticks * 102);
    - gate, rot_mod, capacities, item weights and pulled sums are integers
      in units of 1/ONE (1e-6);
    - the allocator's weights are exact rationals <<numerator, denominator>>
      in lowest terms.
  The cosine is a degree-10 Taylor polynomial with quadrant reduction,
  within 3e-6 of math.cos.  TLC's integers are 32 bits wide, so products
  go through MulDiv, which computes floor(a*b/d) without forming a*b.
*)
EXTENDS Integers, Sequences, FiniteSets, TLC

\* ------------------------------------------------------------ constants
\* re.py:21, kernel_map.py:6   SQRT_RATIO = 4.39
SQRT_RATIO == <<439, 100>>
\* kernel_map.py:7
NUM_PYRAMIDS == 4
\* re.py:22   CAP_ROTATE_DEGREES = 45.0
CAP_ROTATE_DEGREES == 45
\* re.py:23   TICK_MULTIPLE = 0.0102, in units of 1/DEG
TICK_MULTIPLE == 102
\* re.py:25
QUADRANTS == <<"Cost", "Revenue", "Overhead", "Growth">>
\* re.py:26
LANES_PER_QUAD == 8

\* units per degree (angles) and per 1.0 (everything else)
DEG == 100 * 100
ONE == 1000 * 1000
\* re.py:93   max(0.05, ...)
ROT_FLOOR == ONE \div 20
\* re.py:100  max(0.5, base)
CAP_FLOOR == ONE \div 2
\* math.pi in units of 1/ONE
PI_FP == 3141593

QuadNames == {QUADRANTS[k] : k \in 1..Len(QUADRANTS)}
LaneIdx == 0..(LANES_PER_QUAD - 1)

\* ----------------------------------------------------------- arithmetic
Max(a, b) == IF a >= b THEN a ELSE b

\* F(v), with v evaluated once: TLC evaluates a LET definition again at
\* every use, and a bound variable of a set only once.
Bind(v, F(_)) == CHOOSE r \in {F(x) : x \in {v}} : TRUE

RECURSIVE GCD(_, _)
GCD(a, b) == IF b = 0 THEN a ELSE GCD(b, a % b)

RECURSIVE MulDivMod(_, _, _)
\* <<q, r>> with a*b = q*d + r and 0 <= r < d, for a, b >= 0 and 0 < d < 2^21,
\* taking b nine bits at a time; no intermediate exceeds 1023*d + a*b/d.
MulDivMod(a, b, d) ==
  IF b = 0 THEN <<0, 0>>
  ELSE LET h  == MulDivMod(a, b \div 512, d)
           lo == b % 512
           q2 == 512 * h[1] + lo * (a \div d)
           r2 == 512 * h[2] + lo * (a % d)
       IN  <<q2 + (r2 \div d), r2 % d>>

\* floor(a*b/d)
MulDiv(a, b, d) == MulDivMod(a, b, d)[1]

\* exact rationals <<n, d>>, d > 0, in lowest terms
RNorm(n, d) == LET g == GCD(IF n < 0 THEN 0 - n ELSE n, d)
               IN  IF g = 0 THEN <<0, 1>> ELSE <<n \div g, d \div g>>
RInt(k)     == <<k, 1>>
Abs(n)      == IF n < 0 THEN -n ELSE n
\* sums and comparisons over the least common denominator, products with
\* cross-cancellation, so that no intermediate is larger than needed
RAdd(x, y)  == LET g == GCD(x[2], y[2])
               IN  RNorm(x[1] * (y[2] \div g) + y[1] * (x[2] \div g), (x[2] \div g) * y[2])
RSub(x, y)  == RAdd(x, <<-y[1], y[2]>>)
RMul(x, y)  == LET g == GCD(Abs(x[1]), y[2])
                   h == GCD(Abs(y[1]), x[2])
               IN  IF x[1] = 0 \/ y[1] = 0 THEN <<0, 1>>
                   ELSE <<(x[1] \div g) * (y[1] \div h), (x[2] \div h) * (y[2] \div g)>>
\* x / y for y > 0
RDiv(x, y)  == RMul(x, <<y[2], y[1]>>)
RLeq(x, y)  == LET g == GCD(x[2], y[2])
               IN  x[1] * (y[2] \div g) <= y[1] * (x[2] \div g)
RMax(x, y)  == IF RLeq(y, x) THEN x ELSE y

RECURSIVE RSum(_, _)
\* sum(w) of the first k entries of a sequence of rationals
RSum(w, k) == IF k = 0 THEN RInt(0) ELSE RAdd(RSum(w, k - 1), w[k])

\* math.cos on the first quadrant: a in 0..90*DEG, result in units of 1/ONE
CosQuadrant(a) ==
  LET x  == MulDiv(a, PI_FP, 180 * DEG)        \* math.radians(a)
      x2 == MulDiv(x, x, ONE)
      h5 == ONE - (x2 \div 90)
      h4 == ONE - MulDiv(x2 \div 56, h5, ONE)
      h3 == ONE - MulDiv(x2 \div 30, h4, ONE)
      h2 == ONE - MulDiv(x2 \div 12, h3, ONE)
  IN  ONE - MulDiv(x2 \div 2, h2, ONE)

\* math.cos(math.radians(a)) for a in 0..360*DEG
CosDeg(a) ==
  LET b == IF a <= 180 * DEG THEN a ELSE 360 * DEG - a
  IN  IF b <= 90 * DEG THEN CosQuadrant(b) ELSE -CosQuadrant(180 * DEG - b)

\* ------------------------------------------------- KernelAllocator (pure)
\* the raw weights, not divided by their sum: WeightsNormalised fails with it
WeightsUnnormalised(r) ==
  <<r, RDiv(RInt(1), r), RDiv(r, RInt(2)), RDiv(RInt(1), RMul(RInt(2), r))>>

\* kernel_map.py:28-36   _weights
Weights(r) ==
  LET w == <<r, RDiv(RInt(1), r), RDiv(r, RInt(2)), RDiv(RInt(1), RMul(RInt(2), r))>>
      s == RSum(w, Len(w))
  IN  [i \in 1..Len(w) |-> RDiv(w[i], s)]

\* a rotation by one tick whatever ticks is: LinearOscillator fails with it
RotateAngleOneTick(a, ticks) == (a + CAP_ROTATE_DEGREES * TICK_MULTIPLE) % (360 * DEG)

\* the rotation without the modulo: AngleInRange fails with it
RotateAngleNoWrap(a, ticks) == a + CAP_ROTATE_DEGREES * (ticks * TICK_MULTIPLE)

\* kernel_map.py:71   (angle + CAP_ROTATE_DEGREES * (ticks * TICK_MULTIPLE)) % 360.0
RotateAngle(a, ticks) == (a + CAP_ROTATE_DEGREES * (ticks * TICK_MULTIPLE)) % (360 * DEG)

\* ------------------------------------------------ OctupQuadEngine (pure)
\* re.py:90   gate = 0.5 * (1 + math.cos(math.radians(angle)))
Gate(a) == (ONE + CosDeg(a)) \div 2

\* re.py:92   micro = 1.0 - (TICK_MULTIPLE * 0.5)
Micro == ONE - ((TICK_MULTIPLE * (ONE \div DEG)) \div 2)

\* the modifier without the gate: RotModOrdered fails with it
RotModNoGate(a) == Max(ROT_FLOOR, Micro)

\* the modifier without its floor: RotModRange fails with it
RotModNoFloor(a) == MulDiv(Gate(a), Micro, ONE)

\* re.py:93   rot_mod = max(0.05, gate * micro)
RotMod(a) == Max(ROT_FLOOR, MulDiv(Gate(a), Micro, ONE))


\* the capacity without its floor: CapacityFloor fails with it
QuadCapNoFloor(share, prio, rmod) ==
  MulDiv(MulDiv(LANES_PER_QUAD * share[1], prio, share[2]), rmod, ONE)

\* re.py:99-100   base = LANES_PER_QUAD * mass_share * priority * rot_mod
\*                quad_caps[q] = max(0.5, base)
\* share (mass_share) is a rational; prio (priority) and rmod (rot_mod) are
\* in units of 1/ONE.
QuadCap(share, prio, rmod) ==
  LET base == MulDiv(MulDiv(LANES_PER_QUAD * share[1], prio, share[2]), rmod, ONE)
  IN  Max(CAP_FLOOR, base)

\* Python values whose type decides whether an operation raises
PyFloat(v) == [type |-> "float", value |-> v]
PyInt(v)   == [type |-> "int", value |-> v]
PyNone     == [type |-> "NoneType"]
PyStr      == [type |-> "str"]
IsNumber(x) == x.type \in {"float", "int"}

\* re.py:120   w = float(item.get("weight", 1.0)); FloatRaises: float() raises
FloatRaises(item) == "weight" \in DOMAIN item /\ ~IsNumber(item.weight)
ItemWeight(item)  == IF "weight" \in DOMAIN item THEN item.weight.value ELSE ONE

\* a peek at the tail instead of the head: LaneFifo fails with it
PeekLast(queue) == queue[Len(queue)]

\* re.py:119   item = L.queue[0]
Peek(queue) == Head(queue)

\* a pop that leaves the item in its queue: ItemsConserved fails with it
PopLeftKeep(queue) == queue

\* a pop that removes the item at the right end: StepFrame fails with it
PopRight(queue) == SubSeq(queue, 1, Len(queue) - 1)

\* re.py:122   L.queue.popleft()
PopLeft(queue) == Tail(queue)

\* a pop that returns the item at the right end: Unserialised fails with it
PopRightItem(queue) == queue[Len(queue)]

\* re.py:122   the item L.queue.popleft() returns
PopLeftItem(queue) == Head(queue)

\* a test of the room left that does not read the weight: CapacityBound
\* fails with it
FitsIgnoringWeight(pulled, w, cap) == pulled < cap

\* re.py:121   if pulled + w <= cap
Fits(pulled, w, cap) == pulled + w <= cap

\* a cursor that advances by two: RoundRobinWindow fails with it
NextCursorSkip(start) == (start + 2) % LANES_PER_QUAD

\* a cursor that stays: CursorAdvance fails with it
NextCursorStay(start) == start

\* re.py:125   qd.rr_idx = (start + 1) % LANES_PER_QUAD
NextCursor(start) == (start + 1) % LANES_PER_QUAD

\* the lanes always visited from lane 0 on: ScheduleOrder fails with it
LaneOrderFromZero(start) == [k \in 1..LANES_PER_QUAD |-> k - 1]

\* re.py:109-111   lane_indices[start:] + lane_indices[:start]
LaneOrder(start) == [k \in 1..LANES_PER_QUAD |-> (start + k - 1) % LANES_PER_QUAD]

\* the first minimal lane among lanes 1..7: BalancedPlacement fails with it
ShortestLaneButFirst(lanes) ==
  CHOOSE i \in LaneIdx \ {0} :
    \A j \in LaneIdx \ {0} : /\ Len(lanes[i].queue) <= Len(lanes[j].queue)
                             /\ (Len(lanes[j].queue) = Len(lanes[i].queue) => i <= j)

\* re.py:63   min(q.lanes, key=lambda L: len(L.queue)): the first minimal lane
ShortestLane(lanes) ==
  CHOOSE i \in LaneIdx :
    \A j \in LaneIdx : /\ Len(lanes[i].queue) <= Len(lanes[j].queue)
                       /\ (Len(lanes[j].queue) = Len(lanes[i].queue) => i <= j)

\* a hint clamped into 0..7 instead of reduced modulo 8: EnqueuePlacement
\* fails with it
TargetLaneClamped(lanes, lane_hint) ==
  IF lane_hint = PyNone THEN ShortestLane(lanes)
  ELSE IF lane_hint.value < 0 THEN 0
  ELSE IF lane_hint.value >= LANES_PER_QUAD THEN LANES_PER_QUAD - 1
  ELSE lane_hint.value

\* re.py:61-64   the index of tgt: the shortest lane, or lane_hint % LANES_PER_QUAD
TargetLane(lanes, lane_hint) ==
  IF lane_hint = PyNone THEN ShortestLane(lanes)
  ELSE lane_hint.value % LANES_PER_QUAD

\* a lookup that falls back to the first quadrant: UnknownQuadrantRejected
\* fails with it
LookupOrFirst(qs, quadrant) ==
  [raised |-> "", name |-> IF quadrant \in DOMAIN qs THEN quadrant ELSE QUADRANTS[1]]

\* re.py:60   q = self.quads[quadrant]: the quadrant, or the KeyError
Lookup(qs, quadrant) ==
  IF quadrant \in DOMAIN qs THEN [raised |-> "", name |-> quadrant]
  ELSE [raised |-> "KeyError"]

RECURSIVE SumLen(_, _)
SumLen(lanes, n) == IF n = 0 THEN 0 ELSE SumLen(lanes, n - 1) + Len(lanes[n - 1].queue)

\* re.py:68-69   snapshot_load
SnapshotLoad(qs) == [q \in QuadNames |-> SumLen(qs[q].lanes, LANES_PER_QUAD)]

\* round(v, 3) of a value in units of 1/ONE
Round3(v) == ((v + 500) \div 1000) * 1000

\* --------------------------------------------------------- skew.py (pure)
\* The values of skew.py are in units of 1e-3; the dilation is an integer, so
\* that its powers are exact.
MILLI == 1000

RECURSIVE SeqSum(_, _)
SeqSum(s, k) == IF k = 0 THEN 0 ELSE SeqSum(s, k - 1) + s[k]

RECURSIVE Pow(_, _)
Pow(b, e) == IF e = 0 THEN 1 ELSE b * Pow(b, e - 1)

\* skew.py:71   n/d if d != 0 else 0.0
SkewBase(ratios) ==
  [i \in 1..Len(ratios) |->
     IF ratios[i][2] # 0 THEN (ratios[i][1] * MILLI) \div ratios[i][2] ELSE 0]

\* skew.py:76-78   element i of the sequence has index i - 1 in the code
FoldIdx(i, folds) == (i - 1) % folds
TurnIdx(i, folds) == (i - 1) \div folds

DepthModes == {"by_fold", "by_turn", "hybrid"}

\* skew.py:81-86
Power(i, folds, depth_mode) ==
  CASE depth_mode = "by_fold" -> FoldIdx(i, folds)
    [] depth_mode = "by_turn" -> TurnIdx(i, folds)
    [] depth_mode = "hybrid"  -> FoldIdx(i, folds) + TurnIdx(i, folds)

\* skew.py:90-91
Dilated(base, folds, dilation, depth_mode) ==
  [i \in 1..Len(base) |-> base[i] * Pow(dilation, Power(i, folds, depth_mode))]

\* skew.py:100, 139, 147   the sum of the elements of fold f
RECURSIVE FoldSumTo(_, _, _, _)
FoldSumTo(vals, folds, f, k) ==
  IF k = 0 THEN 0
  ELSE FoldSumTo(vals, folds, f, k - 1) + (IF FoldIdx(k, folds) = f THEN vals[k] ELSE 0)

FoldSum(vals, folds, f) == FoldSumTo(vals, folds, f, Len(vals))

\* skew.py:152   the number of elements of fold f
FoldCount(n, folds, f) == Cardinality({i \in 1..n : FoldIdx(i, folds) = f})

\* the sum of fn[0] .. fn[n - 1]
RECURSIVE FnSum(_, _)
FnSum(fn, n) == IF n = 0 THEN 0 ELSE FnSum(fn, n - 1) + fn[n - 1]

NdArray(rows) == [type |-> "ndarray", rows |-> rows]

\* skew.py:123   M.shape != (folds, folds)
ShapeIs(matrix, folds) ==
  /\ Len(matrix.rows) = folds
  /\ \A r \in 1..Len(matrix.rows) : Len(matrix.rows[r]) = folds

\* skew.py:126-127   np.allclose(row_sums, 1.0, atol=1e-6): within 1.1e-5 of
\* 1, which between multiples of 1e-3 is equality
RowsSumToOne(matrix) ==
  \A r \in 1..Len(matrix.rows) : SeqSum(matrix.rows[r], Len(matrix.rows[r])) = MILLI

\* skew.py:106-132   the inflow of every fold, or the error of the mode
DiversionPlan(outflow, folds, divert_mode, matrix) ==
  CASE divert_mode = "next" ->
         [raised |-> "",
          inflow |-> [g \in 0..(folds - 1) |-> outflow[(g + folds - 1) % folds]]]
    [] divert_mode = "spread" ->
         IF folds > 1
         THEN LET share == [f \in 0..(folds - 1) |-> outflow[f] \div (folds - 1)]
              IN  [raised |-> "",
                   inflow |-> [g \in 0..(folds - 1) |-> FnSum(share, folds) - share[g]]]
         ELSE [raised |-> "", inflow |-> [g \in 0..(folds - 1) |-> 0]]
    [] divert_mode = "matrix" ->
         IF matrix = PyNone THEN [raised |-> "ValueError"]
         ELSE IF ~ShapeIs(matrix, folds) THEN [raised |-> "ValueError"]
         ELSE IF ~RowsSumToOne(matrix) THEN [raised |-> "ValueError"]
         ELSE [raised |-> "",
               inflow |-> [g \in 0..(folds - 1) |->
                  FnSum([f \in 0..(folds - 1) |->
                           (outflow[f] * matrix.rows[f + 1][g + 1]) \div MILLI], folds)]]
    [] OTHER -> [raised |-> "ValueError"]

\* skew.py:136-141   every fold of positive total keeps 1 - divert of it
Reduced(dilated, folds, divert) ==
  [i \in 1..Len(dilated) |->
     IF FoldSum(dilated, folds, FoldIdx(i, folds)) > 0
     THEN (dilated[i] * (MILLI - divert)) \div MILLI
     ELSE dilated[i]]

\* skew.py:144-154   the inflow of a fold goes to its elements in proportion
\* to their mass, evenly when the fold has no mass
Received(reduced, folds, inflow) ==
  [i \in 1..Len(reduced) |->
     LET g       == FoldIdx(i, folds)
         seg_sum == FoldSum(reduced, folds, g)
     IN  IF inflow[g] > 0 /\ seg_sum > 0
         THEN reduced[i] + (reduced[i] * inflow[g]) \div seg_sum
         ELSE IF inflow[g] > 0 /\ seg_sum = 0
         THEN reduced[i] + inflow[g] \div FoldCount(Len(reduced), folds, g)
         ELSE reduced[i]]

\* skew.py:157-161
Renormalised(final, dilated, preserve_sum) ==
  LET target_sum == SeqSum(dilated, Len(dilated))
      cur_sum    == SeqSum(final, Len(final))
  IN  IF preserve_sum /\ cur_sum > 0
      THEN [i \in 1..Len(final) |-> (final[i] * target_sum) \div cur_sum]
      ELSE final

SkewResult(base, dilated, final) ==
  [raised |-> "", values_raw |-> base, values_dilated |-> dilated,
   values_diverted |-> final]

\* skew.py:32-169   skew_and_check; the diagnostics of the result are a
\* function of values_diverted (skew.py:163) and are not part of the record
SkewAndCheck(ratios, folds, dilation, divert, divert_mode, matrix, depth_mode, preserve_sum) ==
  IF Len(ratios) = 0 THEN SkewResult(<<>>, <<>>, <<>>)
  ELSE IF depth_mode \notin DepthModes THEN [raised |-> "ValueError"]
  ELSE
    LET base    == SkewBase(ratios)
        dilated == Dilated(base, folds, dilation, depth_mode)
    IN  IF ~(divert > 0) THEN SkewResult(base, dilated, dilated)
        ELSE
          LET outflow == [f \in 0..(folds - 1) |->
                            (divert * FoldSum(dilated, folds, f)) \div MILLI]
              plan    == DiversionPlan(outflow, folds, divert_mode, matrix)
          IN  IF plan.raised # "" THEN [raised |-> plan.raised]
              ELSE SkewResult(base, dilated,
                     Renormalised(
                       Received(Reduced(dilated, folds, divert), folds, plan.inflow),
                       dilated, preserve_sum))

\* ------------------------------------------------------------------ state
VARIABLES
  alloc,      \* OctupQuadEngine.alloc, the allocator given to __init__
  tick,       \* OctupQuadEngine.tick
  angle,      \* alloc.angle, in units of 1/DEG degree
  quads,      \* OctupQuadEngine.quads: name -> Quadrant
  next_id,    \* number of items the producers have created so far
  calls,      \* number of calls other than step so far
  last,       \* the last call: its arguments, what it returned or raised
  enq_log,    \* per lane, the ids appended so far, in order
  sched_log,  \* per lane, the ids scheduled so far, in order
  start_log,  \* per quadrant, the starting lane of every completed pass
  threads,    \* the calls in progress when the host does not serialise them:
              \* where the step is, and the enqueue of every producer at work
  sealed      \* a seal_re.py engine given the same calls: its tick, angle and
              \* quads, the calls it has had, what its last call returned

vars == <<alloc, tick, angle, quads, next_id, calls, last, enq_log, sched_log, start_log,
          threads, sealed>>

\* re.py:28-32   Lane(id=f"{q[:1]}{i}"), an empty queue, active
Initial(q) ==
  CASE q = "Cost" -> "C" [] q = "Revenue" -> "R" [] q = "Overhead" -> "O" [] q = "Growth" -> "G"
NewLane(q, i) == [id |-> <<Initial(q), i>>, queue |-> <<>>, active |-> TRUE]

\* re.py:52-56   default priorities
DefaultPriority(q) ==
  CASE q = "Revenue"  -> (125 * ONE) \div 100
    [] q = "Growth"   -> (110 * ONE) \div 100
    [] q = "Cost"     -> (95 * ONE) \div 100
    [] q = "Overhead" -> (80 * ONE) \div 100

\* re.py:34-40, 43-56   Quadrant defaults and OctupQuadEngine.__init__
NewQuadrant(q) ==
  [name |-> q, lanes |-> [i \in LaneIdx |-> NewLane(q, i)],
   priority |-> DefaultPriority(q), mass_share |-> <<1, 4>>, rr_idx |-> 0]

\* the allocators a host constructs the engine with: kernel_map.py's, and a
\* stub like re.py's whose allocate returns fixed weights
KernelAlloc == [cls |-> "KernelAllocator"]
StubAlloc(weights) == [cls |-> "_AllocStub", weights |-> weights]

\* no call in progress
StepIdle == [pc |-> "idle"]
NoThreads == [step |-> StepIdle, producers |-> {}]

\* seal_re.py:37-48   __init__ of the sealed engine: tick 0, angle 0.0, lanes
\* of an id and a queue, the priorities of re.py; no call so far
NewSealed ==
  [tick |-> 0, angle |-> 0,
   quads |-> [q \in QuadNames |->
                [name |-> q,
                 lanes |-> [i \in LaneIdx |-> [id |-> <<Initial(q), i>>, queue |-> <<>>]],
                 priority |-> DefaultPriority(q), mass_share |-> <<1, 4>>, rr_idx |-> 0]],
   history |-> <<>>, last |-> [op |-> "init", raised |-> ""]]

InitWith(a) ==
  /\ alloc = a
  /\ tick = 0
  /\ angle = 0
  /\ quads = [q \in QuadNames |-> NewQuadrant(q)]
  /\ next_id = 0
  /\ calls = 0
  /\ last = [op |-> "init", raised |-> ""]
  /\ enq_log = [q \in QuadNames |-> [i \in LaneIdx |-> <<>>]]
  /\ sched_log = [q \in QuadNames |-> [i \in LaneIdx |-> <<>>]]
  /\ start_log = [q \in QuadNames |-> <<>>]
  /\ threads = NoThreads
  /\ sealed = NewSealed

Init == InitWith(KernelAlloc)


\* ------------------------------------------------------- KernelAllocator
RECURSIVE PyramidsTruncated(_, _, _)
\* masses cut to whole units: MassConserved fails with it
PyramidsTruncated(raw, w, n) ==
  IF n = 0 THEN [mass |-> <<>>, allocated |-> RInt(0)]
  ELSE LET p == PyramidsTruncated(raw, w, n - 1)
           mass_i == RInt((raw * w[n][1]) \div w[n][2])
       IN  [mass |-> Append(p.mass, mass_i), allocated |-> RAdd(p.allocated, mass_i)]

RECURSIVE Pyramids(_, _, _)
\* kernel_map.py:51-56   the loop: mass_i = raw_mass * w[i]; allocated += mass_i
Pyramids(raw, w, n) ==
  IF n = 0 THEN [mass |-> <<>>, allocated |-> RInt(0)]
  ELSE LET p == Pyramids(raw, w, n - 1)
           mass_i == RMul(RInt(raw), w[n])
       IN  [mass |-> Append(p.mass, mass_i), allocated |-> RAdd(p.allocated, mass_i)]

\* kernel_map.py:38-63   allocate(raw_mass, standard_bias) of an allocator
\* constructed with sqrt_ratio r; standard_bias is <<>> for None or an empty
\* list, else a sequence of rationals.  raw_mass is a Python value; a number
\* carries its value in whole units.
AllocateWith(r, raw_mass, standard_bias) ==
  LET w0 == Weights(r)
      biased == Len(standard_bias) > 0 /\ Len(standard_bias) = 4
      wb == [i \in 1..Len(w0) |-> RMul(w0[i], standard_bias[i])]
      w  == IF biased
            THEN LET s == RSum(wb, Len(wb)) IN [i \in 1..Len(wb) |-> RDiv(wb[i], s)]
            ELSE w0
  IN  IF ~IsNumber(raw_mass)
      THEN [raised |-> "TypeError"]                       \* raw_mass * w[i]
      ELSE IF Len(standard_bias) > 0 /\ Len(standard_bias) < NUM_PYRAMIDS
      THEN [raised |-> "IndexError"]                      \* standard_bias[i]
      ELSE LET p == Pyramids(raw_mass.value, w, NUM_PYRAMIDS)
               residual == RMax(RInt(0), RSub(RInt(raw_mass.value), p.allocated))
           IN  [raised |-> "", weights |-> w, pyramids |-> p.mass,
                residual |-> residual,
                tri_delta |-> [k \in 1..3 |-> RDiv(residual, RInt(3))]]

\* allocate of an allocator constructed with the default sqrt_ratio
Allocate(raw_mass, standard_bias) == AllocateWith(SQRT_RATIO, raw_mass, standard_bias)

\* an allocator whose weights follow the mass, level below 1000:
\* MassIndependence fails with it
AllocAllocateByMass(a, raw_mass) ==
  IF ~IsNumber(raw_mass) THEN [raised |-> "TypeError"]
  ELSE IF raw_mass.value >= 1000 THEN Allocate(raw_mass, <<>>)
  ELSE [raised |-> "", weights |-> Weights(RInt(1))]

\* re.py:81   self.alloc.allocate(raw_mass), for the allocator a
\* re.py:141-145   _AllocStub.allocate returns its weights, raw_mass unread
AllocAllocate(a, raw_mass) ==
  IF a.cls = "KernelAllocator" THEN Allocate(raw_mass, <<>>)
  ELSE [raised |-> "", weights |-> a.weights]

\* ------------------------------------------------------ OctupQuadEngine
RECURSIVE LanePassStopAtMisfit(_, _, _, _, _)
\* a pass that ends at the first head that does not fit: HeadLeftInPlace
\* fails with it
LanePassStopAtMisfit(q, cap, order, k, st) ==
  IF k > Len(order) \/ st.pulled >= cap THEN st
  ELSE LET idx == order[k]
           L   == st.lanes[idx]
           st1 == [st EXCEPT !.visits = Append(@, idx)]
       IN  IF ~L.active \/ L.queue = <<>>
           THEN LanePassStopAtMisfit(q, cap, order, k + 1, st1)
           ELSE LET item == Peek(L.queue)
                IN  IF FloatRaises(item) THEN [st1 EXCEPT !.raised = TRUE]
                    ELSE IF Fits(st.pulled, ItemWeight(item), cap)
                    THEN LanePassStopAtMisfit(q, cap, order, k + 1,
                           [st1 EXCEPT !.lanes[idx].queue = PopLeft(@),
                                       !.sched = Append(@, <<q, L.id, item>>),
                                       !.pulled = @ + ItemWeight(item)])
                    ELSE st1

RECURSIVE LanePassNoBreak(_, _, _, _, _)
\* a pass that goes on after the capacity is reached: VisitedAtMostOnce
\* fails with it
LanePassNoBreak(q, cap, order, k, st) ==
  IF k > Len(order) THEN st
  ELSE LET idx == order[k]
           L   == st.lanes[idx]
           st1 == [st EXCEPT !.visits = Append(@, idx)]
       IN  IF ~L.active \/ L.queue = <<>>
           THEN LanePassNoBreak(q, cap, order, k + 1, st1)
           ELSE LET item == Peek(L.queue)
                IN  IF FloatRaises(item) THEN [st1 EXCEPT !.raised = TRUE]
                    ELSE IF Fits(st.pulled, ItemWeight(item), cap)
                    THEN LanePassNoBreak(q, cap, order, k + 1,
                           [st1 EXCEPT !.lanes[idx].queue = PopLeft(@),
                                       !.sched = Append(@, <<q, L.id, item>>),
                                       !.pulled = @ + ItemWeight(item)])
                    ELSE LanePassNoBreak(q, cap, order, k + 1, st1)

RECURSIVE LanePassIgnoringActive(_, _, _, _, _)
\* a pass that does not read the active flag: InactiveLaneSkipped fails
\* with it
LanePassIgnoringActive(q, cap, order, k, st) ==
  IF k > Len(order) \/ st.pulled >= cap THEN st
  ELSE LET idx == order[k]
           L   == st.lanes[idx]
           st1 == [st EXCEPT !.visits = Append(@, idx)]
       IN  IF L.queue = <<>>
           THEN LanePassIgnoringActive(q, cap, order, k + 1, st1)
           ELSE LET item == Peek(L.queue)
                IN  IF FloatRaises(item) THEN [st1 EXCEPT !.raised = TRUE]
                    ELSE IF Fits(st.pulled, ItemWeight(item), cap)
                    THEN LanePassIgnoringActive(q, cap, order, k + 1,
                           [st1 EXCEPT !.lanes[idx].queue = PopLeft(@),
                                       !.sched = Append(@, <<q, L.id, item>>),
                                       !.pulled = @ + ItemWeight(item)])
                    ELSE LanePassIgnoringActive(q, cap, order, k + 1, st1)

RECURSIVE LanePass(_, _, _, _, _)
\* re.py:113-123   the loop over lane_indices from position k on.
\* st: lanes, pulled, sched, visits (the lanes fetched), raised
LanePass(q, cap, order, k, st) ==
  IF k > Len(order) \/ st.pulled >= cap THEN st
  ELSE LET idx == order[k]
           L   == st.lanes[idx]
           st1 == [st EXCEPT !.visits = Append(@, idx)]
       IN  IF ~L.active \/ L.queue = <<>> THEN LanePass(q, cap, order, k + 1, st1)
           ELSE LET item == Peek(L.queue)
                IN  IF FloatRaises(item) THEN [st1 EXCEPT !.raised = TRUE]
                    ELSE IF Fits(st.pulled, ItemWeight(item), cap)
                    THEN LanePass(q, cap, order, k + 1,
                           [st1 EXCEPT !.lanes[idx].queue = PopLeft(@),
                                       !.sched = Append(@, <<q, L.id, item>>),
                                       !.pulled = @ + ItemWeight(item)])
                    ELSE LanePass(q, cap, order, k + 1, st1)

RECURSIVE QuadLoop(_, _, _)
\* re.py:104-125   the loop over QUADRANTS from position k on.
\* acc: quads, sched, pulled, start, visits, passed (the quadrants whose pass
\* ended normally), raised
QuadLoop(caps, k, acc) ==
  IF k > Len(QUADRANTS) THEN acc
  ELSE LET q     == QUADRANTS[k]
           qd    == acc.quads[q]
           start == qd.rr_idx % LANES_PER_QUAD
       IN  Bind(LanePass(q, caps[q], LaneOrder(start), 1,
                  [lanes |-> qd.lanes, pulled |-> 0, sched |-> acc.sched,
                   visits |-> <<>>, raised |-> FALSE]),
             LAMBDA p :
               Bind([acc EXCEPT !.quads[q].lanes = p.lanes,
                                !.sched = p.sched,
                                !.pulled[q] = p.pulled,
                                !.start[q] = start,
                                !.visits[q] = p.visits],
                 LAMBDA acc1 :
                   IF p.raised THEN [acc1 EXCEPT !.raised = TRUE]
                   ELSE Bind([acc1 EXCEPT !.quads[q].rr_idx = NextCursor(start),
                                          !.passed = Append(@, q)],
                          LAMBDA acc2 : QuadLoop(caps, k + 1, acc2))))

\* re.py:84-85   for name, w in zip(map_order, weights): mass_share = w
RefreshShares(qs, weights) ==
  [q \in QuadNames |->
     [qs[q] EXCEPT !.mass_share =
        weights[CHOOSE k \in 1..Len(QUADRANTS) : QUADRANTS[k] = q]]]

RECURSIVE LogScheduled(_, _, _)
\* the scheduled ids appended, in schedule order, to their lanes' logs
LogScheduled(log, sched, n) ==
  IF n = 0 THEN log
  ELSE LET e == sched[n]
       IN  [LogScheduled(log, sched, n - 1) EXCEPT ![e[1]][e[2][2]] = Append(@, e[3].id)]

\* re.py:71-134   step(raw_mass), as far as it gets: `raised` names the
\* exception that ended it, "" when it returned.
StepOutcome(raw_mass) ==
  Bind(AllocAllocate(alloc, raw_mass), LAMBDA out :
    IF out.raised # ""
    THEN [raised |-> out.raised, tick |-> tick + 1, angle |-> angle, quads |-> quads,
          sched |-> <<>>, passed |-> <<>>]
    ELSE
      Bind(RefreshShares(quads, out.weights), LAMBDA qs1 :
      Bind(RotateAngle(angle, 1), LAMBDA angle1 :
      Bind(RotMod(angle1), LAMBDA rot_mod :
      Bind([q \in QuadNames |-> QuadCap(qs1[q].mass_share, qs1[q].priority, rot_mod)],
        LAMBDA quad_caps :
      Bind(QuadLoop(quad_caps, 1,
             [quads |-> qs1, sched |-> <<>>, raised |-> FALSE, passed |-> <<>>,
              pulled |-> [q \in QuadNames |-> 0],
              start  |-> [q \in QuadNames |-> qs1[q].rr_idx % LANES_PER_QUAD],
              visits |-> [q \in QuadNames |-> <<>>]]),
        LAMBDA acc :
          [raised |-> IF acc.raised THEN "ValueError" ELSE "",
           tick |-> tick + 1, angle |-> angle1, quads |-> acc.quads,
           rot_mod |-> rot_mod, quad_caps |-> quad_caps,
           sched |-> acc.sched, pulled |-> acc.pulled, start |-> acc.start,
           visits |-> acc.visits, passed |-> acc.passed]))))))

\* re.py:127-134   the returned dict
TickResult(o) ==
  [tick |-> o.tick, angle_deg |-> o.angle, rot_mod |-> o.rot_mod,
   quad_caps |-> [q \in QuadNames |-> Round3(o.quad_caps[q])],
   scheduled |-> o.sched, backlog |-> SnapshotLoad(o.quads)]

\* one call of step(raw_mass)
Step(raw_mass) ==
  \E o \in {StepOutcome(raw_mass)} :
      /\ tick' = o.tick
      /\ angle' = o.angle
      /\ quads' = o.quads
      /\ sched_log' = IF o.raised # "" THEN sched_log          \* nothing is returned
                       ELSE LogScheduled(sched_log, o.sched, Len(o.sched))
      /\ start_log' = [q \in QuadNames |->
                         IF \E k \in 1..Len(o.passed) : o.passed[k] = q
                         THEN Append(start_log[q], o.start[q]) ELSE start_log[q]]
      /\ last' = IF o.raised # ""
                 THEN [op |-> "step", raised |-> o.raised, raw_mass |-> raw_mass]
                 ELSE [op |-> "step", raised |-> "", raw_mass |-> raw_mass,
                       quad_caps |-> o.quad_caps, pulled |-> o.pulled,
                       start |-> o.start, visits |-> o.visits, ret |-> TickResult(o)]
      /\ UNCHANGED <<alloc, next_id, calls, enq_log, threads, sealed>>

\* re.py:59-66   enqueue(quadrant, item, lane_hint)
Enqueue(quadrant, item, lane_hint) ==
  \E r \in {Lookup(quads, quadrant)} :
    IF r.raised # ""
    THEN /\ last' = [op |-> "enqueue", raised |-> r.raised, quadrant |-> quadrant,
                     lane_hint |-> lane_hint, item |-> item]
         /\ calls' = calls + 1
         /\ UNCHANGED <<alloc, tick, angle, quads, next_id, enq_log, sched_log, start_log, threads, sealed>>
    ELSE \E tgt \in {TargetLane(quads[r.name].lanes, lane_hint)} :
           /\ quads' = [quads EXCEPT ![r.name].lanes[tgt].queue = Append(@, item)]
           /\ enq_log' = [enq_log EXCEPT ![r.name][tgt] = Append(@, item.id)]
           /\ next_id' = next_id + 1
           /\ calls' = calls + 1
           /\ last' = [op |-> "enqueue", raised |-> "", quadrant |-> quadrant,
                       lane_hint |-> lane_hint, item |-> item, tgt |-> tgt]
           /\ UNCHANGED <<alloc, tick, angle, sched_log, start_log, threads, sealed>>

\* kernel_map.py:65-72   tick_counter_rotation(ticks), called on the allocator
TickCounterRotation(ticks) ==
  /\ angle' = RotateAngle(angle, ticks)
  /\ last' = [op |-> "tick_counter_rotation", raised |-> "", ticks |-> ticks,
              ret |-> angle']
  /\ calls' = calls + 1
  /\ UNCHANGED <<alloc, tick, quads, next_id, enq_log, sched_log, start_log, threads, sealed>>

\* kernel_map.py:24-26, 38-63   KernelAllocator(sqrt_ratio).allocate(raw_mass,
\* standard_bias), called by the host: it reads and writes no engine state
AllocateCall(sqrt_ratio, raw_mass, standard_bias) ==
  \E out \in {AllocateWith(sqrt_ratio, raw_mass, standard_bias)} :
    /\ last' = [op |-> "allocate", raised |-> out.raised, sqrt_ratio |-> sqrt_ratio,
                raw_mass |-> raw_mass, standard_bias |-> standard_bias, ret |-> out]
    /\ calls' = calls + 1
    /\ UNCHANGED <<alloc, tick, angle, quads, next_id, enq_log, sched_log, start_log, threads, sealed>>

\* skew.py:32-169   skew_and_check(...), called by the host: it reads and
\* writes no engine state
SkewCall(ratios, folds, dilation, divert, divert_mode, matrix, depth_mode, preserve_sum) ==
  \E out \in {SkewAndCheck(ratios, folds, dilation, divert, divert_mode, matrix,
                           depth_mode, preserve_sum)} :
    /\ last' = [op |-> "skew_and_check", raised |-> out.raised, ratios |-> ratios,
                folds |-> folds, dilation |-> dilation, divert |-> divert,
                divert_mode |-> divert_mode, matrix |-> matrix,
                depth_mode |-> depth_mode, preserve_sum |-> preserve_sum,
                ret |-> out]
    /\ calls' = calls + 1
    /\ UNCHANGED <<alloc, tick, angle, quads, next_id, enq_log, sched_log, start_log, threads, sealed>>

\* re.py:68-69   snapshot_load()
Snapshot ==
  /\ last' = [op |-> "snapshot_load", raised |-> "", ret |-> SnapshotLoad(quads)]
  /\ calls' = calls + 1
  /\ UNCHANGED <<alloc, tick, angle, quads, next_id, enq_log, sched_log, start_log, threads, sealed>>

\* re.py:38   Quadrant.priority, the external bias knob, assigned by the host
SetPriority(q, p) ==
  /\ quads' = [quads EXCEPT ![q].priority = p]
  /\ last' = [op |-> "set_priority", raised |-> "", quadrant |-> q, priority |-> p]
  /\ calls' = calls + 1
  /\ UNCHANGED <<alloc, tick, angle, next_id, enq_log, sched_log, start_log, threads, sealed>>

\* re.py:32   Lane.active, assigned by the host
SetActive(q, i, flag) ==
  /\ quads' = [quads EXCEPT ![q].lanes[i].active = flag]
  /\ last' = [op |-> "set_active", raised |-> "", quadrant |-> q, lane |-> i,
              active |-> flag]
  /\ calls' = calls + 1
  /\ UNCHANGED <<alloc, tick, angle, next_id, enq_log, sched_log, start_log, threads, sealed>>

\* ----------------------------------- OctupQuadEngine, calls not serialised
\* step and enqueue as sequences of steps, one per operation on a queue: the
\* test `not L.queue`, the peek L.queue[0] and popleft() of step, each
\* len(L.queue) of min(...) and the append of enqueue.  threads.step is the
\* frame of the step in progress: pc, the locals of re.py:88-123, qi and k
\* (the positions of the two for loops), item (the head peeked);
\* threads.producers holds the frame of every enqueue in progress.

\* the lane the inner loop is at
CurrentLane(c) == LaneOrder(c.start)[c.k]

\* re.py:125, 104-111   the pass of quadrant c.qi ends: the cursor moves on,
\* and the pass of the next quadrant is set up or the loop is left
EndQuadrant(c, qs, sl) ==
  LET q   == QUADRANTS[c.qi]
      qs1 == [qs EXCEPT ![q].rr_idx = NextCursor(c.start)]
      sl1 == [sl EXCEPT ![q] = Append(@, c.start)]
  IN  IF c.qi < Len(QUADRANTS)
      THEN [step |-> [c EXCEPT !.pc = "check", !.qi = c.qi + 1, !.k = 1,
                               !.pulled = 0, !.item = PyNone,
                               !.start = qs1[QUADRANTS[c.qi + 1]].rr_idx % LANES_PER_QUAD],
            quads |-> qs1, start_log |-> sl1]
      ELSE [step |-> [c EXCEPT !.pc = "return", !.item = PyNone],
            quads |-> qs1, start_log |-> sl1]

\* re.py:113   the inner loop goes to its next lane, or ends
NextLane(c, qs, sl) ==
  IF c.k < LANES_PER_QUAD
  THEN [step |-> [c EXCEPT !.pc = "check", !.k = c.k + 1, !.item = PyNone],
        quads |-> qs, start_log |-> sl]
  ELSE EndQuadrant(c, qs, sl)

\* re.py:78-100, 103-111   step up to the first lane of the first quadrant
StepBegin(raw_mass) ==
  /\ threads.step.pc = "idle"
  /\ \E out \in {AllocAllocate(alloc, raw_mass)} :
       IF out.raised # ""
       THEN /\ tick' = tick + 1
            /\ last' = [op |-> "step", raised |-> out.raised, raw_mass |-> raw_mass]
            /\ UNCHANGED <<alloc, angle, quads, next_id, calls, enq_log, sched_log,
                           start_log, threads, sealed>>
       ELSE \E qs1 \in {RefreshShares(quads, out.weights)} :
            \E rot_mod \in {RotMod(RotateAngle(angle, 1))} :
              /\ tick' = tick + 1
              /\ angle' = RotateAngle(angle, 1)
              /\ quads' = qs1
              /\ threads' = [threads EXCEPT !.step =
                   [pc |-> "check", raw_mass |-> raw_mass, rot_mod |-> rot_mod,
                    caps |-> [q \in QuadNames |->
                                QuadCap(qs1[q].mass_share, qs1[q].priority, rot_mod)],
                    qi |-> 1, k |-> 1,
                    start |-> qs1[QUADRANTS[1]].rr_idx % LANES_PER_QUAD,
                    pulled |-> 0, sched |-> <<>>, item |-> PyNone]]
              /\ last' = [op |-> "step_begin", raised |-> ""]
              /\ UNCHANGED <<alloc, next_id, calls, enq_log, sched_log, start_log, sealed>>

\* re.py:114-118   the break, and the test of the lane's flag and queue
StepCheck ==
  /\ threads.step.pc = "check"
  /\ LET c == threads.step
         q == QUADRANTS[c.qi]
         L == quads[q].lanes[CurrentLane(c)]
     IN  \E nx \in {IF c.pulled >= c.caps[q] THEN EndQuadrant(c, quads, start_log)
                    ELSE IF ~L.active \/ L.queue = <<>>
                    THEN NextLane(c, quads, start_log)
                    ELSE [step |-> [c EXCEPT !.pc = "peek"], quads |-> quads,
                          start_log |-> start_log]} :
           /\ threads' = [threads EXCEPT !.step = nx.step]
           /\ quads' = nx.quads
           /\ start_log' = nx.start_log
  /\ last' = [op |-> "step_check", raised |-> ""]
  /\ UNCHANGED <<alloc, tick, angle, next_id, calls, enq_log, sched_log, sealed>>

\* re.py:119-121   the peek, the weight and the test of the room left
StepPeek ==
  /\ threads.step.pc = "peek"
  /\ LET c    == threads.step
         q    == QUADRANTS[c.qi]
         item == Peek(quads[q].lanes[CurrentLane(c)].queue)
     IN  IF FloatRaises(item)
         THEN /\ threads' = [threads EXCEPT !.step = StepIdle]
              /\ last' = [op |-> "step", raised |-> "ValueError", raw_mass |-> c.raw_mass]
              /\ UNCHANGED <<quads, start_log, sealed>>
         ELSE \E nx \in {IF Fits(c.pulled, ItemWeight(item), c.caps[q])
                         THEN [step |-> [c EXCEPT !.pc = "pop", !.item = item],
                               quads |-> quads, start_log |-> start_log]
                         ELSE NextLane(c, quads, start_log)} :
                /\ threads' = [threads EXCEPT !.step = nx.step]
                /\ quads' = nx.quads
                /\ start_log' = nx.start_log
                /\ last' = [op |-> "step_peek", raised |-> ""]
  /\ UNCHANGED <<alloc, tick, angle, next_id, calls, enq_log, sched_log, sealed>>

\* re.py:122-123   popleft, the schedule entry, pulled += w
StepPop ==
  /\ threads.step.pc = "pop"
  /\ LET c      == threads.step
         q      == QUADRANTS[c.qi]
         idx    == CurrentLane(c)
         L      == quads[q].lanes[idx]
         popped == PopLeftItem(L.queue)
     IN  \E nx \in {NextLane([c EXCEPT !.sched = Append(@, <<q, L.id, popped>>),
                                       !.pulled = @ + ItemWeight(c.item)],
                             [quads EXCEPT ![q].lanes[idx].queue = PopLeft(@)],
                             start_log)} :
           /\ threads' = [threads EXCEPT !.step = nx.step]
           /\ quads' = nx.quads
           /\ start_log' = nx.start_log
           /\ sched_log' = [sched_log EXCEPT ![q][idx] = Append(@, popped.id)]
           /\ last' = [op |-> "step_pop", raised |-> "", peeked |-> c.item,
                       popped |-> popped]
  /\ UNCHANGED <<alloc, tick, angle, next_id, calls, enq_log, sealed>>

\* re.py:127-134   the returned dict
StepReturn ==
  /\ threads.step.pc = "return"
  /\ LET c == threads.step
     IN  last' = [op |-> "step", raised |-> "", raw_mass |-> c.raw_mass,
                  quad_caps |-> c.caps,
                  ret |-> [tick |-> tick, angle_deg |-> angle, rot_mod |-> c.rot_mod,
                           quad_caps |-> [q \in QuadNames |-> Round3(c.caps[q])],
                           scheduled |-> c.sched, backlog |-> SnapshotLoad(quads)]]
  /\ threads' = [threads EXCEPT !.step = StepIdle]
  /\ UNCHANGED <<alloc, tick, angle, quads, next_id, calls, enq_log, sched_log, start_log, sealed>>

\* re.py:61-65   enqueue up to the choice of tgt: made at once with a
\* lane_hint, after eight reads of a length without
EnqueueBegin(quadrant, item, lane_hint) ==
  \E r \in {Lookup(quads, quadrant)} :
    /\ IF r.raised # ""
       THEN /\ last' = [op |-> "enqueue", raised |-> r.raised, quadrant |-> quadrant,
                        lane_hint |-> lane_hint, item |-> item]
            /\ UNCHANGED <<next_id, threads, sealed>>
       ELSE /\ threads' = [threads EXCEPT !.producers = @ \cup
                 {[pc |-> IF lane_hint = PyNone THEN "scan" ELSE "append",
                   quadrant |-> r.name, item |-> item, lane_hint |-> lane_hint,
                   i |-> 0,
                   tgt |-> IF lane_hint = PyNone THEN 0
                           ELSE lane_hint.value % LANES_PER_QUAD,
                   tgt_len |-> -1]}]
            /\ next_id' = next_id + 1
            /\ last' = [op |-> "enqueue_begin", raised |-> ""]
    /\ calls' = calls + 1
    /\ UNCHANGED <<alloc, tick, angle, quads, enq_log, sched_log, start_log, sealed>>

\* re.py:63   one len(L.queue) of min(q.lanes, key=...): the first lane of
\* the least length read so far is kept
EnqueueScan(p) ==
  /\ p.pc = "scan"
  /\ LET len    == Len(quads[p.quadrant].lanes[p.i].queue)
         better == p.tgt_len = -1 \/ len < p.tgt_len
         p1     == [p EXCEPT !.tgt = IF better THEN p.i ELSE @,
                             !.tgt_len = IF better THEN len ELSE @,
                             !.i = p.i + 1,
                             !.pc = IF p.i + 1 = LANES_PER_QUAD THEN "append" ELSE "scan"]
     IN  threads' = [threads EXCEPT !.producers = (@ \ {p}) \cup {p1}]
  /\ last' = [op |-> "enqueue_scan", raised |-> ""]
  /\ UNCHANGED <<alloc, tick, angle, quads, next_id, calls, enq_log, sched_log, start_log, sealed>>

\* re.py:66   tgt.queue.append(item)
EnqueueAppend(p) ==
  /\ p.pc = "append"
  /\ quads' = [quads EXCEPT ![p.quadrant].lanes[p.tgt].queue = Append(@, p.item)]
  /\ enq_log' = [enq_log EXCEPT ![p.quadrant][p.tgt] = Append(@, p.item.id)]
  /\ threads' = [threads EXCEPT !.producers = @ \ {p}]
  /\ last' = [op |-> "enqueue", raised |-> "", quadrant |-> p.quadrant,
              lane_hint |-> p.lane_hint, item |-> p.item, tgt |-> p.tgt]
  /\ UNCHANGED <<alloc, tick, angle, next_id, calls, sched_log, start_log, sealed>>

\* ------------------------------------------- seal_re.py: the sealed engine
\* The sealed engine is given every call before the engine of re.py is:
\* sealed.history holds the calls it has had, and the engine of re.py has had
\* the first calls + tick of them.

\* seal_re.py:11-14   quma_seal(obj): json.dumps has no encoding for an id of
\* type bytes and raises TypeError; the digest is a function of obj
QumaSeal(obj) ==
  IF \E k \in 1..Len(obj.scheduled) : obj.scheduled[k][3].type \notin {"int", "str"}
  THEN [raised |-> "TypeError"]
  ELSE [raised |-> "", seal |-> <<"sha256", obj>>]

RECURSIVE SealLanePass(_, _, _, _, _)
\* seal_re.py:91-99   the loop over lane_indices from position k on.
\* st: lanes, pulled, sched, raised
SealLanePass(q, cap, order, k, st) ==
  IF k > Len(order) \/ st.pulled >= cap THEN st
  ELSE LET idx == order[k]
           L   == st.lanes[idx]
       IN  IF L.queue = <<>> THEN SealLanePass(q, cap, order, k + 1, st)
           ELSE LET item == L.queue[1]
                IN  IF FloatRaises(item) THEN [st EXCEPT !.raised = TRUE]
                    ELSE IF st.pulled + ItemWeight(item) <= cap
                    THEN SealLanePass(q, cap, order, k + 1,
                           [st EXCEPT !.lanes[idx].queue = Tail(@),
                                      !.sched = Append(@, <<q, L.id, item>>),
                                      !.pulled = @ + ItemWeight(item)])
                    ELSE SealLanePass(q, cap, order, k + 1, st)

RECURSIVE SealQuadLoop(_, _, _)
\* seal_re.py:84-100   the loop over QUADRANTS from position k on.
\* acc: quads, sched, raised
SealQuadLoop(caps, k, acc) ==
  IF k > Len(QUADRANTS) THEN acc
  ELSE LET q     == QUADRANTS[k]
           qd    == acc.quads[q]
           start == qd.rr_idx % LANES_PER_QUAD
           order == [j \in 1..LANES_PER_QUAD |-> (start + j - 1) % LANES_PER_QUAD]
       IN  Bind(SealLanePass(q, caps[q], order, 1,
                  [lanes |-> qd.lanes, pulled |-> 0, sched |-> acc.sched,
                   raised |-> FALSE]),
             LAMBDA p :
               IF p.raised
               THEN [acc EXCEPT !.quads[q].lanes = p.lanes, !.raised = TRUE]
               ELSE Bind([acc EXCEPT !.quads[q].lanes = p.lanes,
                                     !.quads[q].rr_idx = (start + 1) % LANES_PER_QUAD,
                                     !.sched = p.sched],
                      LAMBDA acc1 : SealQuadLoop(caps, k + 1, acc1)))

\* seal_re.py:67-112   step(raw_mass) of the sealed engine; raw_mass is not
\* read.  The weights are those of _weights (seal_re.py:50-54, the
\* expression of kernel_map.py:33-36 with r = 4.39); angle, rot_mod and
\* capacities are the expressions of re.py:88-100 on self.angle.
SealStep(raw_mass) ==
  /\ Len(sealed.history) = calls + tick
  /\ \E qs1 \in {RefreshShares(sealed.quads, Weights(SQRT_RATIO))},
        angle1 \in {(sealed.angle + CAP_ROTATE_DEGREES * TICK_MULTIPLE) % (360 * DEG)} :
     \E rot_mod \in {Max(ROT_FLOOR, MulDiv(Gate(angle1), Micro, ONE))} :
     \E quad_caps \in {[q \in QuadNames |->
                          Max(CAP_FLOOR,
                              MulDiv(MulDiv(LANES_PER_QUAD * qs1[q].mass_share[1],
                                            qs1[q].priority, qs1[q].mass_share[2]),
                                     rot_mod, ONE))]} :
     \E acc \in {SealQuadLoop(quad_caps, 1,
                   [quads |-> qs1, sched |-> <<>>, raised |-> FALSE])} :
     \E result \in {[tick |-> sealed.tick + 1, angle_deg |-> angle1, rot_mod |-> rot_mod,
                     quad_caps |-> [q \in QuadNames |-> Round3(quad_caps[q])],
                     scheduled |-> [k \in 1..Len(acc.sched) |->
                                      <<acc.sched[k][1], acc.sched[k][2], acc.sched[k][3].id>>],
                     backlog |-> SnapshotLoad(acc.quads)]} :
       sealed' = [tick |-> sealed.tick + 1, angle |-> angle1, quads |-> acc.quads,
                  history |-> Append(sealed.history, [op |-> "step", raw_mass |-> raw_mass]),
                  last |-> IF acc.raised THEN [op |-> "step", raised |-> "ValueError"]
                           ELSE IF QumaSeal(result).raised # ""
                           THEN [op |-> "step", raised |-> QumaSeal(result).raised]
                           ELSE [op |-> "step", raised |-> "", ret |-> result,
                                 seal |-> QumaSeal(result).seal]]
  /\ UNCHANGED <<alloc, tick, angle, quads, next_id, calls, last, enq_log, sched_log,
                 start_log, threads>>

\* seal_re.py:56-62   enqueue(quadrant, item, lane_hint) of the sealed engine
SealEnqueue(quadrant, item, lane_hint) ==
  /\ Len(sealed.history) = calls + tick
  /\ LET lanes == sealed.quads[quadrant].lanes
         tgt   == IF lane_hint = PyNone
                  THEN CHOOSE i \in LaneIdx :
                         \A j \in LaneIdx :
                           \/ Len(lanes[i].queue) < Len(lanes[j].queue)
                           \/ Len(lanes[i].queue) = Len(lanes[j].queue) /\ i <= j
                  ELSE lane_hint.value % LANES_PER_QUAD
     IN  sealed' = [sealed EXCEPT
                      !.quads[quadrant].lanes[tgt].queue = Append(@, item),
                      !.history = Append(@, [op |-> "enqueue", quadrant |-> quadrant,
                                             item |-> item, lane_hint |-> lane_hint]),
                      !.last = [op |-> "enqueue", raised |-> ""]]
  /\ UNCHANGED <<alloc, tick, angle, quads, next_id, calls, last, enq_log, sched_log,
                 start_log, threads>>


\* --------------------------------------------------------- the inputs
\* Spec: short runs with many producer calls.
\* calls other than step, and ticks, in one run
MaxCalls == 2
MaxTicks == 2
\* SpecLong: runs long enough for the cursors to wrap, with every kind of call
MaxCallsLong == 1
MaxTicksLong == 9
\* SpecMalformed: Spec with malformed arguments as well
MaxCallsBad == 2
MaxTicksBad == 2

\* SpecKernel: direct calls of the allocator, and ticks
MaxCallsKernel == 1
MaxTicksKernel == 2

\* SpecZero: Spec with items of weight 0 and 0.5
MaxCallsZero == 2
MaxTicksZero == 2

\* "weight" of a well-formed item: absent (1.0 by default), 0.25, 0.5
LightWeights == {PyNone, PyFloat(ONE \div 4)}
ItemWeights  == LightWeights \cup {PyFloat(ONE \div 2)}
\* weight 0, and the weight that fills Revenue's and Growth's capacity
ZeroWeights == {PyInt(0), PyFloat(ONE \div 2)}
\* a "weight" float() does not accept
BadWeights == {PyStr}
\* lane_hint: None, 9 (lane 1), -1 (lane 7)
LaneHints == {PyNone, PyInt(9), PyInt(-1)}
\* names that are no key of quads
UnknownQuadrants == {"Profit", "cost"}
\* raw_mass = 1000.0, and a raw_mass that is no number
RawMasses == {PyFloat(1000)}
BadMasses == {PyNone}
\* ticks >= 0 of a direct rotation: none, just short of half a turn, one
\* tick short of a full turn, and one tick short of exactly half a turn
\* (20000 * 0.459 = 9180 = 25 * 360 + 180)
RotationTicks == {0, 392, 784, 19999}
\* the allocators of the long runs: the stub's weights leave Cost and Growth
\* a mass share of 0
Allocators == {KernelAlloc, StubAlloc(<<RInt(0), <<1, 2>>, <<1, 2>>, RInt(0)>>)}
\* priorities the host assigns
Priorities == {0, 2 * ONE}

\* positive ratios an allocator is constructed with
Ratios == {SQRT_RATIO, <<1, 1>>, <<1, 2>>, <<10, 1>>}
\* raw_mass of a direct allocate
AllocMasses == {PyFloat(1000), PyInt(0), PyInt(1), PyInt(7)}
\* standard_bias: none; of the right length 4; shorter; longer
Biases ==
  {<<>>,
   <<RInt(2), RInt(1), RInt(1), RInt(1)>>, <<<<1, 2>>, RInt(1), RInt(2), RInt(3)>>,
   <<RInt(2)>>, <<RInt(1), RInt(2), RInt(3)>>,
   <<RInt(1), RInt(1), RInt(1), RInt(1), RInt(2)>>,
   <<RInt(2), RInt(2), RInt(2), RInt(2), RInt(2), RInt(2)>>}

\* the dict a producer builds for its next item
NewItem(weight) ==
  IF weight = PyNone THEN [id |-> next_id] ELSE [id |-> next_id, weight |-> weight]

EnqueueOp(max_calls, weights, hints) ==
  \E q \in QuadNames, w \in weights, h \in hints :
    /\ calls < max_calls
    /\ Enqueue(q, NewItem(w), h)

EnqueueUnknown(max_calls) ==
  \E q \in UnknownQuadrants, h \in {PyNone, PyInt(9)} :
    /\ calls < max_calls
    /\ Enqueue(q, NewItem(PyNone), h)

StepOp(max_ticks, masses) ==
  \E raw_mass \in masses :
    /\ tick < max_ticks
    /\ Step(raw_mass)

RotationOp(max_calls) ==
  \E ticks \in RotationTicks :
    /\ calls < max_calls
    /\ TickCounterRotation(ticks)

SetPriorityOp(max_calls) ==
  \E q \in QuadNames, p \in Priorities :
    /\ calls < max_calls
    /\ SetPriority(q, p)

SnapshotOp(max_calls) ==
  /\ calls < max_calls
  /\ Snapshot

Next ==
  \/ EnqueueOp(MaxCalls, LightWeights, LaneHints)
  \/ StepOp(MaxTicks, RawMasses)

Spec == Init /\ [][Next]_vars

NextLong ==
  \/ EnqueueOp(MaxCallsLong, ItemWeights, LaneHints)
  \/ EnqueueUnknown(MaxCallsLong)
  \/ StepOp(MaxTicksLong, RawMasses)
  \/ RotationOp(MaxCallsLong)
  \/ SetPriorityOp(MaxCallsLong)
  \/ SnapshotOp(MaxCallsLong)

InitLong == \E a \in Allocators : InitWith(a)

SpecLong == InitLong /\ [][NextLong]_vars

AllocateOp(max_calls) ==
  \E r \in Ratios, m \in AllocMasses, b \in Biases :
    /\ calls < max_calls
    /\ AllocateCall(r, m, b)

NextKernel ==
  \/ AllocateOp(MaxCallsKernel)
  \/ StepOp(MaxTicksKernel, RawMasses)

SpecKernel == Init /\ [][NextKernel]_vars

\* re.py:150-164   the demo: an engine on _AllocStub, 40/30/18/26 items of
\* weight 1 enqueued without lane hint, then 5 ticks with raw_mass 1000.0
DEMO_COST == 40
DEMO_REVENUE == 30
DEMO_OVERHEAD == 18
DEMO_GROWTH == 26
DEMO_TICKS == 5

DemoCount(q) ==
  CASE q = "Cost" -> DEMO_COST [] q = "Revenue" -> DEMO_REVENUE
    [] q = "Overhead" -> DEMO_OVERHEAD [] q = "Growth" -> DEMO_GROWTH

\* the quadrant of the demo's n-th enqueue, n from 0
DemoQuadrant(n) ==
  IF n < DEMO_COST THEN "Cost"
  ELSE IF n < DEMO_COST + DEMO_REVENUE THEN "Revenue"
  ELSE IF n < DEMO_COST + DEMO_REVENUE + DEMO_OVERHEAD THEN "Overhead"
  ELSE "Growth"

DemoItems == DEMO_COST + DEMO_REVENUE + DEMO_OVERHEAD + DEMO_GROWTH

DemoEnqueue ==
  /\ next_id < DemoItems
  /\ Enqueue(DemoQuadrant(next_id), NewItem(PyInt(ONE)), PyNone)

DemoStep ==
  /\ next_id = DemoItems
  /\ tick < DEMO_TICKS
  /\ Step(PyFloat(1000))

NextDemo == DemoEnqueue \/ DemoStep

InitDemo == InitWith(StubAlloc(Weights(SQRT_RATIO)))

SpecDemo == InitDemo /\ [][NextDemo]_vars

NextZero ==
  \/ EnqueueOp(MaxCallsZero, ZeroWeights, {PyNone})
  \/ StepOp(MaxTicksZero, RawMasses)

SpecZero == Init /\ [][NextZero]_vars

NextMalformed ==
  \/ EnqueueOp(MaxCallsBad, LightWeights \cup BadWeights, {PyNone})
  \/ StepOp(MaxTicksBad, RawMasses \cup BadMasses)

SpecMalformed == Init /\ [][NextMalformed]_vars

\* SpecSkew: calls of skew_and_check over lists of ratios, fold counts,
\* diversion modes and matrices, well-formed and not.
MaxCallsSkew == 1

SkewRatios ==
  { <<>>,
    << <<1, 2>>, <<3, 4>> >>,
    << <<1, 2>>, <<3, 4>>, <<1, 0>>, <<1, 4>> >> }

SkewFolds == {2, 3}

SkewDilations == {1, 2}

SkewDiverts == {0, MILLI \div 4}

SkewDivertModes == {"next", "spread", "matrix", "previous"}

SkewDepthModes == DepthModes \cup {"by_depth"}

SkewMatrices ==
  { PyNone,
    NdArray(<< <<MILLI, 0>>, <<0, MILLI>> >>),
    NdArray(<< <<MILLI \div 2, MILLI \div 2>>, <<MILLI \div 2, MILLI \div 4>> >>),
    NdArray(<< <<0, MILLI, 0>>, <<0, 0, MILLI>>, <<MILLI, 0, 0>> >>),
    NdArray(<< <<MILLI, 0, 0>>, <<0, MILLI, 0>> >>) }

SkewOp(max_calls) ==
  \E ratios \in SkewRatios, folds \in SkewFolds, dilation \in SkewDilations,
     divert \in SkewDiverts, divert_mode \in SkewDivertModes,
     matrix \in SkewMatrices, depth_mode \in SkewDepthModes,
     preserve_sum \in BOOLEAN :
    /\ calls < max_calls
    /\ SkewCall(ratios, folds, dilation, divert, divert_mode, matrix, depth_mode,
                preserve_sum)

NextSkew == SkewOp(MaxCallsSkew)

SpecSkew == Init /\ [][NextSkew]_vars

\* SpecLanes: lanes switched off and on by the host, items that fill or
\* exceed the capacity of their quadrant, and ticks.
MaxCallsLanes == 3
MaxTicksLanes == 2

\* the quadrants the producers of SpecLanes use: Revenue's capacity is 0.5 in
\* these ticks, Cost's is above 4
LaneQuadrants == {"Cost", "Revenue"}
\* the lanes the host switches
SwitchedLanes == {0, 1}

EnqueueLanes(max_calls) ==
  \E q \in LaneQuadrants, w \in ItemWeights :
    /\ calls < max_calls
    /\ Enqueue(q, NewItem(w), PyNone)

SetActiveOp(max_calls) ==
  \E i \in SwitchedLanes, flag \in BOOLEAN :
    /\ calls < max_calls
    /\ SetActive("Revenue", i, flag)

NextLanes ==
  \/ EnqueueLanes(MaxCallsLanes)
  \/ SetActiveOp(MaxCallsLanes)
  \/ StepOp(MaxTicksLanes, RawMasses)

SpecLanes == Init /\ [][NextLanes]_vars

\* SpecVisit: items of weight 0 and 0.5, stacked on one lane by a hint or
\* spread by the shortest-lane rule, and ticks.
MaxCallsVisit == 3
MaxTicksVisit == 2

\* lane_hint: None, 9 (lane 1)
VisitHints == {PyNone, PyInt(9)}

EnqueueVisit(max_calls) ==
  \E q \in LaneQuadrants, w \in ZeroWeights, h \in VisitHints :
    /\ calls < max_calls
    /\ Enqueue(q, NewItem(w), h)

NextVisit ==
  \/ EnqueueVisit(MaxCallsVisit)
  \/ StepOp(MaxTicksVisit, RawMasses)

SpecVisit == Init /\ [][NextVisit]_vars

\* SpecOscillator: direct rotations of the allocator and ticks of the engine.
MaxCallsOscillator == 2
MaxTicksOscillator == 3

\* ticks of a direct rotation: one, a few, the 10 of kernel_map.py:90, most of
\* a turn, many turns
OscillatorTicks == RotationTicks \cup {1, 2, 5, 10}

RotationOscillator(max_calls) ==
  \E ticks \in OscillatorTicks :
    /\ calls < max_calls
    /\ TickCounterRotation(ticks)

NextOscillator ==
  \/ RotationOscillator(MaxCallsOscillator)
  \/ StepOp(MaxTicksOscillator, RawMasses)

SpecOscillator == Init /\ [][NextOscillator]_vars

\* SpecMass: ticks and direct allocations with several masses, rotations,
\* and producers.
MaxCallsMass == 2
MaxTicksMass == 2

\* positive raw_mass: 1000.0, 1, 7
PositiveMasses == {PyFloat(1000), PyInt(1), PyInt(7)}
\* ticks of a direct rotation: one, and most of half a turn
MassRotations == {1, 392}

EnqueueMass(max_calls) ==
  \E q \in LaneQuadrants, w \in LightWeights :
    /\ calls < max_calls
    /\ Enqueue(q, NewItem(w), PyNone)

AllocateMass(max_calls) ==
  \E m \in PositiveMasses :
    /\ calls < max_calls
    /\ AllocateCall(SQRT_RATIO, m, <<>>)

RotationMass(max_calls) ==
  \E ticks \in MassRotations :
    /\ calls < max_calls
    /\ TickCounterRotation(ticks)

NextMass ==
  \/ EnqueueMass(MaxCallsMass)
  \/ AllocateMass(MaxCallsMass)
  \/ RotationMass(MaxCallsMass)
  \/ StepOp(MaxTicksMass, PositiveMasses)

SpecMass == Init /\ [][NextMass]_vars

\* SpecResponse: Revenue filled before the first tick with items of weight
\* 0.5 (its capacity in these ticks) and 1.0, then ticks enough for the
\* cursor to come round.
MaxCallsResponse == 8
MaxTicksResponse == 9

\* "weight" 0.5, and absent (1.0)
ResponseWeights == {PyFloat(ONE \div 2), PyNone}

EnqueueResponse(max_calls) ==
  \E w \in ResponseWeights :
    /\ calls < max_calls
    /\ tick = 0
    /\ Enqueue("Revenue", NewItem(w), PyNone)

NextResponse ==
  \/ EnqueueResponse(MaxCallsResponse)
  \/ StepOp(MaxTicksResponse, RawMasses)

SpecResponse == Init /\ [][NextResponse]_vars

\* SpecConcurrent: two producers and the step, not serialised by the host.
MaxCallsConcurrent == 2
MaxTicksConcurrent == 1

Producers == {"p1", "p2"}
\* the items and lane_hints of the producers: "weight" 0.25 with no hint,
\* "weight" 0.5 with lane_hint 9 (lane 1).  Revenue's capacity at tick 1 is
\* 0.5: two quarters or one half fill it, a quarter and a half exceed it
ConcurrentEnqueues == {<<PyFloat(ONE \div 4), PyNone>>, <<PyFloat(ONE \div 2), PyInt(9)>>}

NextConcurrent ==
  \/ \E e \in ConcurrentEnqueues :
       /\ calls < MaxCallsConcurrent
       /\ Cardinality(threads.producers) < Cardinality(Producers)
       /\ EnqueueBegin("Revenue", NewItem(e[1]), e[2])
  \/ \E p \in threads.producers : EnqueueScan(p)
  \/ \E p \in threads.producers : EnqueueAppend(p)
  \/ \E raw_mass \in RawMasses :
       /\ tick < MaxTicksConcurrent
       /\ StepBegin(raw_mass)
  \/ StepCheck
  \/ StepPeek
  \/ StepPop
  \/ StepReturn

SpecConcurrent == Init /\ [][NextConcurrent]_vars

\* SpecSeal: the same calls given to a sealed engine and to an engine of
\* re.py on KernelAllocator(): enqueues into Cost and Revenue of items of
\* weight 0.25 or none (1.0), with an id of type int or bytes, with or
\* without a lane_hint, and ticks.
MaxCallsSeal == 2
MaxTicksSeal == 2

NextSeal ==
  \/ \E q \in LaneQuadrants, w \in LightWeights, t \in {"int", "bytes"}, h \in VisitHints :
       /\ calls < MaxCallsSeal
       /\ SealEnqueue(q, [NewItem(w) EXCEPT !.id = [type |-> t, value |-> next_id]], h)
  \/ \E raw_mass \in RawMasses :
       /\ tick < MaxTicksSeal
       /\ SealStep(raw_mass)
  \/ /\ Len(sealed.history) > calls + tick
     /\ \E c \in {sealed.history[calls + tick + 1]} :
          /\ c.op = "enqueue"
          /\ Enqueue(c.quadrant, c.item, c.lane_hint)
  \/ /\ Len(sealed.history) > calls + tick
     /\ \E c \in {sealed.history[calls + tick + 1]} :
          /\ c.op = "step"
          /\ Step(c.raw_mass)

SpecSeal == Init /\ [][NextSeal]_vars

\* ------------------------------------------------------------ properties
RECURSIVE ScheduledWeight(_, _, _)
\* the weights of the first n entries of a schedule that are of quadrant q
ScheduledWeight(sched, q, n) ==
  IF n = 0 THEN 0
  ELSE ScheduledWeight(sched, q, n - 1)
         + (IF sched[n][1] = q THEN ItemWeight(sched[n][3]) ELSE 0)

IsPrefix(s1, s2) == Len(s1) <= Len(s2) /\ \A k \in 1..Len(s1) : s1[k] = s2[k]

StepReturned == last.op = "step" /\ last.raised = ""

\* C1: in every tick, for every quadrant, the weights of the items the tick
\* scheduled from that quadrant sum to at most the capacity the tick computed
\* for it.
CapacityBound ==
  StepReturned =>
    \A q \in QuadNames :
      ScheduledWeight(last.ret.scheduled, q, Len(last.ret.scheduled)) <= last.quad_caps[q]

\* a tick that scheduled from Revenue and left a backlogged Revenue lane that
\* has never been served: the capacity, not the lane order, kept its item back
CapacityBinds ==
  /\ StepReturned
  /\ ScheduledWeight(last.ret.scheduled, "Revenue", Len(last.ret.scheduled)) > 0
  /\ \E i \in LaneIdx : /\ quads["Revenue"].lanes[i].queue # <<>>
                        /\ sched_log["Revenue"][i] = <<>>

\* C2: per lane, the ids scheduled so far, in schedule order over the ticks,
\* are the first ids enqueued onto that lane, in enqueue order.
LaneFifo ==
  \A q \in QuadNames : \A i \in LaneIdx : IsPrefix(sched_log[q][i], enq_log[q][i])

\* two items of one lane scheduled one after the other by two ticks
FifoAcrossTicks ==
  /\ tick = 2
  /\ \E q \in QuadNames : \E i \in LaneIdx :
       /\ Len(sched_log[q][i]) = 2
       /\ last.op = "step" /\ Len(last.ret.scheduled) = 1

\* C3: for every quadrant, any LANES_PER_QUAD consecutive ticks start their
\* pass at LANES_PER_QUAD different lanes, that is at every lane exactly once.
RoundRobinWindow ==
  \A q \in QuadNames : \A k \in 1..Len(start_log[q]) :
    k + LANES_PER_QUAD - 1 <= Len(start_log[q]) =>
      {start_log[q][j] : j \in k..(k + LANES_PER_QUAD - 1)} = LaneIdx

\* more ticks than lanes: two overlapping windows, the cursor wrapped
WindowWrapped ==
  \A q \in QuadNames : Len(start_log[q]) = LANES_PER_QUAD + 1

\* C4: a step moves every cursor from c to (c + 1) % LANES_PER_QUAD, a call
\* other than step leaves every cursor as it is, and every cursor is in
\* 0..LANES_PER_QUAD-1.
CursorAdvance ==
  [][ /\ last'.op = "step" =>
           \A q \in QuadNames :
             quads'[q].rr_idx = (quads[q].rr_idx + 1) % LANES_PER_QUAD
      /\ last'.op # "step" =>
           \A q \in QuadNames : quads'[q].rr_idx = quads[q].rr_idx
      /\ \A q \in QuadNames : quads[q].rr_idx \in LaneIdx /\ quads'[q].rr_idx \in LaneIdx
    ]_vars

\* a tick whose Revenue pass stopped early and whose Cost pass found nothing,
\* with both cursors advanced
CursorAdvancedAnyway ==
  /\ StepReturned
  /\ tick = 1
  /\ Len(last.visits["Revenue"]) < LANES_PER_QUAD
  /\ last.ret.backlog["Cost"] = 0 /\ Len(last.visits["Cost"]) = LANES_PER_QUAD
  /\ quads["Revenue"].rr_idx = 1 /\ quads["Cost"].rr_idx = 1

\* C5: in every tick every quadrant's capacity, as computed and as returned,
\* is at least CAP_FLOOR.
CapacityFloor ==
  StepReturned =>
    \A q \in QuadNames :
      last.quad_caps[q] >= CAP_FLOOR /\ last.ret.quad_caps[q] >= CAP_FLOOR

\* a tick with a mass share of 0 (Cost) and with a priority of 0 (Revenue)
FloorAtZero ==
  /\ StepReturned
  /\ quads["Cost"].mass_share[1] = 0
  /\ quads["Revenue"].priority = 0 /\ quads["Revenue"].mass_share[1] > 0
  /\ last.quad_caps["Cost"] = CAP_FLOOR /\ last.quad_caps["Revenue"] = CAP_FLOOR

\* C6: the angle is in [0, 360).
AngleInRange == 0 <= angle /\ angle < 360 * DEG

\* a tick that took the angle past a full turn
AngleWrappedByStep ==
  /\ StepReturned
  /\ last.ret.angle_deg < CAP_ROTATE_DEGREES * TICK_MULTIPLE

\* C7: in every tick the rotation modifier is at least ROT_FLOOR and at most
\* the micro-throttle.
RotModRange ==
  StepReturned => ROT_FLOOR <= last.ret.rot_mod /\ last.ret.rot_mod <= Micro

\* a tick at exactly half a turn, where the gate is 0
RotModAtHalfTurn ==
  /\ StepReturned
  /\ last.ret.angle_deg = 180 * DEG
  /\ Gate(last.ret.angle_deg) = 0
  /\ last.ret.rot_mod = ROT_FLOOR

\* C8: an enqueue that returns has appended its item to one lane of the named
\* quadrant: without a hint the lowest-indexed lane among the shortest, with a
\* hint h lane h % LANES_PER_QUAD; no other queue, no cursor, not the angle
\* and not the tick counter have changed.
EnqueuePlacement ==
  [][ (last'.op = "enqueue" /\ last'.raised = "") =>
        LET q     == last'.quadrant
            h     == last'.lane_hint
            lanes == quads[q].lanes
            t     == IF h = PyNone
                     THEN CHOOSE i \in LaneIdx :
                            /\ \A j \in LaneIdx : Len(lanes[i].queue) <= Len(lanes[j].queue)
                            /\ \A j \in 0..(i - 1) : Len(lanes[j].queue) > Len(lanes[i].queue)
                     ELSE h.value % LANES_PER_QUAD
        IN  /\ quads' = [quads EXCEPT ![q].lanes[t].queue = Append(@, last'.item)]
            /\ tick' = tick /\ angle' = angle
    ]_vars

\* an enqueue without a hint that passed over the longer lane 0, into a
\* quadrant whose lane 7 a negative hint had filled
PlacedOnShortest ==
  /\ last.op = "enqueue" /\ last.raised = "" /\ last.lane_hint = PyNone
  /\ Len(quads[last.quadrant].lanes[0].queue) = 1
  /\ Len(quads[last.quadrant].lanes[1].queue) = 1
  /\ quads[last.quadrant].lanes[1].queue[1] = last.item

\* C9: an enqueue that names no configured quadrant raises, and leaves the
\* quadrants with their lanes, queues and cursors, the angle and the tick
\* counter as they were.
UnknownQuadrantRejected ==
  [][ (last'.op = "enqueue" /\ last'.quadrant \notin QuadNames) =>
        /\ last'.raised = "KeyError"
        /\ quads' = quads /\ DOMAIN quads' = QuadNames
        /\ angle' = angle /\ tick' = tick
    ]_vars

\* a rejected enqueue after a tick
RejectedAfterTick ==
  /\ last.op = "enqueue" /\ last.raised = "KeyError" /\ last.quadrant = "cost"
  /\ tick > 0

\* C10: a step that raises leaves the tick counter, the angle, every cursor,
\* every mass share and every queue as they were before the call.
StepAtomicOnFailure ==
  [][ (last'.op = "step" /\ last'.raised # "") =>
        (tick' = tick /\ angle' = angle /\ quads' = quads)
    ]_vars

\* C11: an allocate with a bias vector whose length is not the number of
\* pyramids raises and returns nothing.  (<<>> stands for no bias vector.)
BiasLengthChecked ==
  (last.op = "allocate" /\ IsNumber(last.raw_mass)
     /\ Len(last.standard_bias) \notin {0, NUM_PYRAMIDS})
    => last.raised # ""

\* the number of entries of a schedule that are of quadrant q
ScheduledCount(sched, q) == Cardinality({k \in 1..Len(sched) : sched[k][1] = q})

\* C12: the first tick of the demo schedules from every quadrant
\* floor(capacity) items, and the quadrant's backlog is its enqueued count
\* less that number.
DemoFirstTick ==
  (StepReturned /\ tick = 1) =>
    \A q \in QuadNames :
      /\ ScheduledCount(last.ret.scheduled, q) = last.quad_caps[q] \div ONE
      /\ last.ret.backlog[q] = DemoCount(q) - (last.quad_caps[q] \div ONE)

\* the demo after its first tick: 4 of Cost, 2 of Overhead, none of Revenue
\* and Growth
DemoAfterFirstTick ==
  /\ StepReturned /\ tick = 1 /\ next_id = DemoItems
  /\ last.ret.backlog = [q \in QuadNames |->
                           CASE q = "Cost" -> DEMO_COST - 4 [] q = "Revenue" -> DEMO_REVENUE
                             [] q = "Overhead" -> DEMO_OVERHEAD - 2 [] q = "Growth" -> DEMO_GROWTH]

\* C13: a tick in which the head of every non-empty lane of a quadrant
\* weighs more than the quadrant's capacity schedules nothing from the
\* quadrant and leaves its lanes and its backlog as they were; its cursor
\* advances.
StarvedQuadrantUntouched ==
  [][ (last'.op = "step" /\ last'.raised = "") =>
        \A q \in QuadNames :
          (\A i \in LaneIdx :
             quads[q].lanes[i].queue # <<>> =>
               ItemWeight(Head(quads[q].lanes[i].queue)) > last'.quad_caps[q])
          => /\ quads'[q].lanes = quads[q].lanes
             /\ ScheduledCount(last'.ret.scheduled, q) = 0
             /\ last'.ret.backlog[q] = SnapshotLoad(quads)[q]
             /\ quads'[q].rr_idx = (quads[q].rr_idx + 1) % LANES_PER_QUAD
    ]_vars

\* a tick that left two backlogged Revenue lanes alone, each head heavier
\* than the capacity
StarvedTick ==
  /\ StepReturned /\ tick = 1
  /\ Cardinality({i \in LaneIdx : quads["Revenue"].lanes[i].queue # <<>>}) = 2
  /\ \A i \in LaneIdx :
       quads["Revenue"].lanes[i].queue # <<>> =>
         ItemWeight(Head(quads["Revenue"].lanes[i].queue)) > last.quad_caps["Revenue"]
  /\ ScheduledCount(last.ret.scheduled, "Revenue") = 0
  /\ quads["Revenue"].rr_idx = 1

RECURSIVE LenSum(_, _)
\* the lengths of the sequences f[0] .. f[n-1], summed
LenSum(f, n) == IF n = 0 THEN 0 ELSE LenSum(f, n - 1) + Len(f[n - 1])

\* the ids of the items in the queues and in the schedules so far
IdsInQueues ==
  {quads[q].lanes[i].queue[k].id :
     <<q, i, k>> \in {t \in QuadNames \X LaneIdx \X (1..next_id) :
                        t[3] <= Len(quads[t[1]].lanes[t[2]].queue)}}
IdsScheduled ==
  {sched_log[q][i][k] :
     <<q, i, k>> \in {t \in QuadNames \X LaneIdx \X (1..next_id) :
                        t[3] <= Len(sched_log[t[1]][t[2]])}}

\* C14: for every quadrant the backlog, as snapshot_load computes it and as
\* the last tick returned it, is the summed length of its lane queues and is
\* the number of items enqueued into it less the number scheduled from it;
\* every item created is in exactly one place, a queue or a past schedule.
ItemsConserved ==
  /\ \A q \in QuadNames :
       LET queued == LenSum([i \in LaneIdx |-> quads[q].lanes[i].queue], LANES_PER_QUAD)
       IN  /\ SnapshotLoad(quads)[q] = queued
           /\ queued = LenSum(enq_log[q], LANES_PER_QUAD) - LenSum(sched_log[q], LANES_PER_QUAD)
           /\ StepReturned => last.ret.backlog[q] = queued
  /\ IdsInQueues \cap IdsScheduled = {}
  /\ IdsInQueues \cup IdsScheduled = 0..(next_id - 1)
  /\ Cardinality(IdsInQueues) + Cardinality(IdsScheduled) = next_id

\* two items enqueued into one quadrant, one of them scheduled, one queued
ConservedAcrossTicks ==
  /\ StepReturned /\ tick = 2 /\ next_id = 2
  /\ \E q \in QuadNames :
       /\ LenSum(enq_log[q], LANES_PER_QUAD) = 2
       /\ LenSum(sched_log[q], LANES_PER_QUAD) = 1
       /\ last.ret.backlog[q] = 1

\* C15: in a tick, every lane the pass of a quadrant came to (the lanes it
\* fetched and, if it stopped early, the lane at which it stopped) whose head
\* weighed 0, the weight pulled so far not exceeding the capacity, has lost
\* that head to the schedule.
ZeroWeightDequeued ==
  [][ (last'.op = "step" /\ last'.raised = "") =>
        \A q \in QuadNames :
          LET order == LaneOrder(last'.start[q])
              came  == IF Len(last'.visits[q]) < LANES_PER_QUAD
                       THEN Len(last'.visits[q]) + 1 ELSE LANES_PER_QUAD
          IN  \A k \in 1..came :
                LET L == quads[q].lanes[order[k]]
                IN  (/\ L.active /\ L.queue # <<>>
                     /\ ItemWeight(Head(L.queue)) = 0
                     /\ last'.pulled[q] <= last'.quad_caps[q])
                    => /\ quads'[q].lanes[order[k]].queue = Tail(L.queue)
                       /\ \E n \in 1..Len(last'.ret.scheduled) :
                            last'.ret.scheduled[n] = <<q, L.id, Head(L.queue)>>
    ]_vars

AllocateReturned == last.op = "allocate" /\ last.raised = ""

\* C16: the weights an allocate returns are positive and sum to 1, for every
\* ratio and with or without a bias vector; without one they are r, 1/r, r/2,
\* 1/(2r) over their sum.  After every tick each mass share is in [0, 1] and
\* the four sum to 1.
WeightsNormalised ==
  /\ AllocateReturned =>
       LET w == last.ret.weights
           r == last.sqrt_ratio
       IN  /\ Len(w) = NUM_PYRAMIDS
           /\ \A i \in 1..Len(w) : w[i][1] > 0 /\ w[i][2] > 0
           /\ RSum(w, Len(w)) = RInt(1)
           /\ Len(last.standard_bias) # NUM_PYRAMIDS =>
                /\ RMul(w[2], RMul(r, r)) = w[1]
                /\ RMul(w[3], RInt(2)) = w[1]
                /\ RMul(w[4], RInt(2)) = w[2]
  /\ tick > 0 =>
       /\ \A q \in QuadNames :
            RLeq(RInt(0), quads[q].mass_share) /\ RLeq(quads[q].mass_share, RInt(1))
       /\ RSum([k \in 1..Len(QUADRANTS) |-> quads[QUADRANTS[k]].mass_share],
               Len(QUADRANTS)) = RInt(1)

\* an allocate with a positive bias vector of the right length, its weights
\* not the unbiased ones
BiasedWeights ==
  /\ AllocateReturned
  /\ last.sqrt_ratio = SQRT_RATIO
  /\ last.standard_bias = <<<<1, 2>>, RInt(1), RInt(2), RInt(3)>>
  /\ last.ret.weights # Weights(SQRT_RATIO)

\* C17: an allocate that returns has given pyramid i the mass
\* raw_mass * weights[i]; the masses sum to raw_mass; the residual is
\* max(0, raw_mass - their sum), is not negative and is 0 for raw_mass 1000,
\* ratio 4.39 and no bias; tri_delta is three equal parts of the residual.
MassConserved ==
  AllocateReturned =>
    LET out == last.ret
        raw == RInt(last.raw_mass.value)
    IN  /\ Len(out.pyramids) = NUM_PYRAMIDS
        /\ \A i \in 1..NUM_PYRAMIDS : out.pyramids[i] = RMul(raw, out.weights[i])
        /\ RSum(out.pyramids, NUM_PYRAMIDS) = raw
        /\ out.residual = RMax(RInt(0), RSub(raw, RSum(out.pyramids, NUM_PYRAMIDS)))
        /\ out.residual[1] >= 0
        /\ (last.raw_mass.value = 1000 /\ last.sqrt_ratio = SQRT_RATIO
              /\ last.standard_bias = <<>>) => out.residual = RInt(0)
        /\ Len(out.tri_delta) = 3
        /\ \A k \in 1..3 : out.tri_delta[k] = out.tri_delta[1]
        /\ RSum(out.tri_delta, 3) = out.residual

\* the allocate of the reference case: 1000 split by ratio 4.39, no bias
MassSplit ==
  /\ AllocateReturned
  /\ last.raw_mass = PyFloat(1000) /\ last.sqrt_ratio = SQRT_RATIO
  /\ last.standard_bias = <<>>
  /\ last.ret.pyramids[1] = <<385442000, 608163>>
  /\ last.ret.residual = RInt(0)

\* C18: the rotation modifier at angle 0 is greater than the rotation
\* modifier at angle 180, as a function and in the ticks at angle 180.
RotModOrdered ==
  /\ RotMod(0) > RotMod(180 * DEG)
  /\ (StepReturned /\ last.ret.angle_deg = 180 * DEG) => last.ret.rot_mod < RotMod(0)

\* a tick at half a turn, its modifier below the modifier of angle 0, which
\* is the micro-throttle
TickAtHalfTurn ==
  /\ StepReturned
  /\ last.ret.angle_deg = 180 * DEG
  /\ last.ret.rot_mod < Micro
  /\ RotMod(0) = Micro

\* a supplied matrix that is not folds x folds or has a row that does not
\* sum to 1
MatrixMalformed(matrix, folds) ==
  /\ matrix # PyNone
  /\ ~(ShapeIs(matrix, folds) /\ RowsSumToOne(matrix))

SkewReturned == last.op = "skew_and_check" /\ last.raised = ""

\* C19: skew_and_check on a non-empty input raises an error whenever the
\* supplied matrix is malformed, or the mode is "matrix" and no matrix is
\* supplied, whatever the other parameters are (divert = 0 included).
MalformedMatrixRejected ==
  (/\ last.op = "skew_and_check"
   /\ Len(last.ratios) > 0
   /\ \/ MatrixMalformed(last.matrix, last.folds)
      \/ last.divert_mode = "matrix" /\ last.matrix = PyNone)
  => last.raised # ""

\* the position of a quadrant in the declared order
QuadPos(q) == CHOOSE k \in 1..Len(QUADRANTS) : QUADRANTS[k] = q

\* the position of a lane in the visit that starts at lane start and wraps
VisitPos(start, lane) == (lane - start + LANES_PER_QUAD) % LANES_PER_QUAD

\* C20: in the schedule of a tick an earlier entry is of an earlier quadrant
\* of Cost, Revenue, Overhead, Growth, or of the same quadrant and of a lane
\* visited earlier, the visit starting at the quadrant's cursor at the start
\* of the tick and ascending with wraparound.
ScheduleOrder ==
  StepReturned =>
    \A i, j \in 1..Len(last.ret.scheduled) :
      i < j =>
        LET a == last.ret.scheduled[i]
            b == last.ret.scheduled[j]
        IN  \/ QuadPos(a[1]) < QuadPos(b[1])
            \/ /\ a[1] = b[1]
               /\ VisitPos(last.start[a[1]], a[2][2]) < VisitPos(last.start[a[1]], b[2][2])

\* a tick that starts at lane 1 and schedules the last lane before lane 0
ScheduleWrapsLanes ==
  /\ StepReturned
  /\ Len(last.ret.scheduled) = 2
  /\ \E q \in QuadNames :
       /\ last.start[q] = 1
       /\ last.ret.scheduled[1][1] = q /\ last.ret.scheduled[1][2][2] = LANES_PER_QUAD - 1
       /\ last.ret.scheduled[2][1] = q /\ last.ret.scheduled[2][2][2] = 0

\* the step from the current state to the next returned a result
StepReturns == last'.op = "step" /\ last'.raised = ""

\* the lane's queue is not the same before (pre) and after (post) the step
Dequeued(pre, post, i) == post[i].queue # pre[i].queue

RECURSIVE PulledBefore(_, _, _, _)
\* the weight dequeued from the lanes at positions 1..k-1 of the visit order
PulledBefore(pre, post, order, k) ==
  IF k = 1 THEN 0
  ELSE PulledBefore(pre, post, order, k - 1)
         + (IF Dequeued(pre, post, order[k - 1])
            THEN ItemWeight(Head(pre[order[k - 1]].queue)) ELSE 0)

\* C21: a tick changes a queue by removing its head or not at all; as long
\* as the weight pulled is below the capacity, the head of an active lane is
\* dequeued exactly if it fits (pulled + weight <= capacity), so a head that
\* does not fit stays and a later lane whose head fits is still dequeued.
HeadLeftInPlace ==
  [][ StepReturns =>
        \A q \in QuadNames : \A k \in 1..LANES_PER_QUAD :
          LET pre   == quads[q].lanes
              post  == quads'[q].lanes
              order == LaneOrder(quads[q].rr_idx % LANES_PER_QUAD)
              i     == order[k]
              pb    == PulledBefore(pre, post, order, k)
              cap   == last'.quad_caps[q]
          IN  /\ \/ post[i].queue = pre[i].queue
                 \/ pre[i].queue # <<>> /\ post[i].queue = Tail(pre[i].queue)
              /\ (pre[i].active /\ pre[i].queue # <<>> /\ pb < cap) =>
                   (Dequeued(pre, post, i) <=>
                      pb + ItemWeight(Head(pre[i].queue)) <= cap)
    ]_vars

\* a tick that started at lane 0 of Revenue, left there a head heavier than
\* the capacity and scheduled the head of lane 1
MisfitPassedOver ==
  /\ StepReturned
  /\ last.start["Revenue"] = 0
  /\ quads["Revenue"].lanes[0].active
  /\ quads["Revenue"].lanes[0].queue # <<>>
  /\ ItemWeight(Head(quads["Revenue"].lanes[0].queue)) > last.quad_caps["Revenue"]
  /\ \E n \in 1..Len(last.ret.scheduled) :
       last.ret.scheduled[n][1] = "Revenue" /\ last.ret.scheduled[n][2][2] = 1

\* C22: in the schedule of a tick no two entries are of the same lane, no
\* quadrant has more than LANES_PER_QUAD entries, and every entry was
\* dequeued while the weight pulled from its quadrant was below the capacity.
VisitedAtMostOnce ==
  StepReturned =>
    LET s == last.ret.scheduled
    IN  /\ \A m, n \in 1..Len(s) : (m < n /\ s[m][1] = s[n][1]) => s[m][2] # s[n][2]
        /\ \A q \in QuadNames :
             /\ ScheduledCount(s, q) <= LANES_PER_QUAD
             /\ \A n \in 1..Len(s) :
                  s[n][1] = q => ScheduledWeight(s, q, n - 1) < last.quad_caps[q]

\* a tick that dequeued the head of a lane and left the next item of that
\* lane, which the capacity left over would have admitted
SecondItemWaits ==
  /\ StepReturned
  /\ \E q \in QuadNames : \E n \in 1..Len(last.ret.scheduled) :
       LET e == last.ret.scheduled[n]
           L == quads[q].lanes[e[2][2]]
       IN  /\ e[1] = q
           /\ L.queue # <<>>
           /\ last.pulled[q] < last.quad_caps[q]
           /\ last.pulled[q] + ItemWeight(Head(L.queue)) <= last.quad_caps[q]

\* C23: a step leaves the queue of every inactive lane as it is and
\* schedules nothing from it; when it returns, an inactive lane reached with
\* the pulled weight below the capacity is among the lanes visited, and the
\* active lanes after it are dequeued exactly if their head fits.
InactiveLaneSkipped ==
  [][ last'.op = "step" =>
        \A q \in QuadNames : \A k \in 1..LANES_PER_QUAD :
          LET pre   == quads[q].lanes
              post  == quads'[q].lanes
              order == LaneOrder(quads[q].rr_idx % LANES_PER_QUAD)
              i     == order[k]
              pb    == PulledBefore(pre, post, order, k)
          IN  /\ ~pre[i].active => post[i].queue = pre[i].queue
              /\ (StepReturns /\ ~pre[i].active) =>
                   /\ \A n \in 1..Len(last'.ret.scheduled) :
                        last'.ret.scheduled[n][2] # pre[i].id
                   /\ pb < last'.quad_caps[q] =>
                        \E v \in 1..Len(last'.visits[q]) : last'.visits[q][v] = i
              /\ (StepReturns /\ pre[i].active /\ pre[i].queue # <<>>
                    /\ pb < last'.quad_caps[q]) =>
                   (Dequeued(pre, post, i) <=>
                      pb + ItemWeight(Head(pre[i].queue)) <= last'.quad_caps[q])
    ]_vars

\* a tick that started at the inactive lane 0 of Revenue, left its head,
\* which fits the capacity, and scheduled the head of lane 1
InactivePassedOver ==
  /\ StepReturned
  /\ last.start["Revenue"] = 0
  /\ ~quads["Revenue"].lanes[0].active
  /\ quads["Revenue"].lanes[0].queue # <<>>
  /\ ItemWeight(Head(quads["Revenue"].lanes[0].queue)) <= last.quad_caps["Revenue"]
  /\ last.visits["Revenue"][1] = 0
  /\ \E n \in 1..Len(last.ret.scheduled) :
       last.ret.scheduled[n][1] = "Revenue" /\ last.ret.scheduled[n][2][2] = 1

\* 0.459 degrees, the advance of one tick
TickIncrement == (459 * DEG) \div 1000

\* the rotations that RotateTimes replays
ReplayedTicks == {n \in OscillatorTicks : n <= 10}

RECURSIVE RotateTimes(_, _)
\* the angle after n consecutive rotations by one tick
RotateTimes(a, n) == IF n = 0 THEN a ELSE RotateAngle(RotateTimes(a, n - 1), 1)

MassIndependence ==
  [][ /\ \E o \in {StepOutcome(PyFloat(1000))} :
           /\ \A m \in PositiveMasses : StepOutcome(m) = o
           /\ StepReturns =>
                /\ last'.ret = TickResult(o)
                /\ tick' = o.tick /\ angle' = o.angle /\ quads' = o.quads
      /\ last'.op = "allocate" =>
           /\ angle' = angle /\ alloc' = alloc
           /\ \A m \in PositiveMasses :
                last'.ret.weights = AllocateWith(last'.sqrt_ratio, m, <<>>).weights
      /\ last'.op = "tick_counter_rotation" =>
           /\ alloc' = alloc
           /\ \A q \in QuadNames : quads'[q].mass_share = quads[q].mass_share
    ]_vars

\* a tick with raw_mass 1 that scheduled an item under a Cost capacity
\* above 4, the capacity of the ticks with raw_mass 1000.0
SmallMassTick ==
  /\ StepReturned
  /\ last.raw_mass = PyInt(1)
  /\ last.quad_caps["Cost"] > 4 * ONE
  /\ Len(last.ret.scheduled) > 0

\* the head of the lane is an item of weight at most the capacity floor
LightHead(L) == L.queue # <<>> /\ ItemWeight(Head(L.queue)) <= CAP_FLOOR

\* C26: a step that returns dequeues the head of the lane its pass starts at
\* when that lane is active and the head weighs at most 0.5; and with every
\* item enqueued before the first tick, a light head of an active lane that
\* saw j items leave has not waited through a tick later than 8 * (j + 1):
\* every light head leaves within LANES_PER_QUAD ticks.
LightHeadServed ==
  [][ /\ StepReturns =>
           \A q \in QuadNames :
             LET s == quads[q].rr_idx % LANES_PER_QUAD
             IN  (quads[q].lanes[s].active /\ LightHead(quads[q].lanes[s])) =>
                   /\ quads'[q].lanes[s].queue = Tail(quads[q].lanes[s].queue)
                   /\ \E n \in 1..Len(last'.ret.scheduled) :
                        last'.ret.scheduled[n] =
                          <<q, quads[q].lanes[s].id, Head(quads[q].lanes[s].queue)>>
      /\ \A q \in QuadNames : \A i \in LaneIdx :
           (quads'[q].lanes[i].active /\ LightHead(quads'[q].lanes[i])) =>
             tick' < LANES_PER_QUAD * (Len(sched_log'[q][i]) + 1)
    ]_vars

\* the eighth tick starts at lane 7 of Revenue and schedules the item that
\* has been its head since before the first tick
ServedAtEighthTick ==
  /\ StepReturned
  /\ tick = LANES_PER_QUAD
  /\ last.start["Revenue"] = LANES_PER_QUAD - 1
  /\ enq_log["Revenue"][LANES_PER_QUAD - 1] # <<>>
  /\ \E n \in 1..Len(last.ret.scheduled) :
       /\ last.ret.scheduled[n][2] = <<"R", LANES_PER_QUAD - 1>>
       /\ last.ret.scheduled[n][3].id = enq_log["Revenue"][LANES_PER_QUAD - 1][1]
       /\ ItemWeight(last.ret.scheduled[n][3]) = CAP_FLOOR

\* the ids of a queue, in order
QueueIds(queue) == [k \in 1..Len(queue) |-> queue[k].id]

\* the ids that have reached a lane, and those still in a producer's hands
IdsAppended ==
  {enq_log[q][i][k] :
     <<q, i, k>> \in {t \in QuadNames \X LaneIdx \X (1..next_id) :
                        t[3] <= Len(enq_log[t[1]][t[2]])}}
IdsInFlight == {p.item.id : p \in threads.producers}

\* C27: with enqueue and step interleaved operation by operation, every
\* lane's appended ids are its scheduled ids followed by its queued ids
\* (order kept, nothing lost, nothing twice), every id created is in one
\* lane or one producer's hands, the item about to be popped and the item
\* popped are the item peeked, and the weight scheduled from a quadrant is
\* within its capacity during the tick and in the result.
Unserialised ==
  /\ \A q \in QuadNames : \A i \in LaneIdx :
       enq_log[q][i] = sched_log[q][i] \o QueueIds(quads[q].lanes[i].queue)
  /\ IdsAppended \cap IdsInFlight = {}
  /\ IdsAppended \cup IdsInFlight = 0..(next_id - 1)
  /\ LenSum(enq_log["Cost"], LANES_PER_QUAD) + LenSum(enq_log["Revenue"], LANES_PER_QUAD)
       + LenSum(enq_log["Overhead"], LANES_PER_QUAD)
       + LenSum(enq_log["Growth"], LANES_PER_QUAD)
       + Cardinality(threads.producers) = next_id
  /\ threads.step.pc = "pop" =>
       LET L == quads[QUADRANTS[threads.step.qi]].lanes[CurrentLane(threads.step)]
       IN  L.queue # <<>> /\ Head(L.queue) = threads.step.item
  /\ last.op = "step_pop" => last.popped = last.peeked
  /\ threads.step.pc # "idle" =>
       \A q \in QuadNames :
         ScheduledWeight(threads.step.sched, q, Len(threads.step.sched))
           <= threads.step.caps[q]
  /\ StepReturned =>
       \A q \in QuadNames :
         ScheduledWeight(last.ret.scheduled, q, Len(last.ret.scheduled))
           <= last.quad_caps[q]

\* a producer appended to the lane whose head the step has peeked and is
\* about to pop
AppendedUnderThePeek ==
  /\ threads.step.pc = "pop"
  /\ last.op = "enqueue" /\ last.raised = ""
  /\ last.quadrant = QUADRANTS[threads.step.qi]
  /\ last.tgt = CurrentLane(threads.step)

\* post is pre without some of its first items
HeadsRemoved(pre, post) ==
  \E n \in 0..Len(pre) : post = SubSeq(pre, n + 1, Len(pre))

\* C28: a call of step, returning or raising, leaves the allocator, the
\* items created and the appended ids alone, keeps the set of categories and
\* of each category's lanes, and leaves every name, priority, lane id and
\* active flag as __init__ made it; every queue after the call is the queue
\* before it without some of its first items.  (Angle, cursor, tick,
\* mass_share are free to change.)
StepFrame ==
  [][last'.op = "step" =>
       /\ alloc' = alloc
       /\ next_id' = next_id
       /\ enq_log' = enq_log
       /\ DOMAIN quads' = QuadNames
       /\ \A q \in QuadNames :
            /\ DOMAIN quads'[q] = DOMAIN NewQuadrant(q)
            /\ quads'[q].name = NewQuadrant(q).name
            /\ quads'[q].priority = NewQuadrant(q).priority
            /\ DOMAIN quads'[q].lanes = LaneIdx
            /\ \A i \in LaneIdx :
                 /\ DOMAIN quads'[q].lanes[i] = DOMAIN NewLane(q, i)
                 /\ quads'[q].lanes[i].id = NewLane(q, i).id
                 /\ quads'[q].lanes[i].active = NewLane(q, i).active
                 /\ HeadsRemoved(quads[q].lanes[i].queue, quads'[q].lanes[i].queue)]_vars

\* after the second tick a lane has given up an item and holds another
SecondTickLeftTail ==
  /\ StepReturned
  /\ tick = 2
  /\ \E q \in QuadNames : \E i \in LaneIdx :
       /\ sched_log[q][i] # <<>>
       /\ quads[q].lanes[i].queue # <<>>
       /\ quads[q].rr_idx # 0

\* both engines have had the same calls, the last of them a step
SameCallsToStep ==
  /\ Len(sealed.history) = calls + tick
  /\ last.op = "step"
  /\ sealed.last.op = "step"

\* the sealed engine's report of its last tick is that of the engine of re.py
SameReport ==
  /\ sealed.last.raised = last.raised
  /\ last.raised = "" =>
       /\ sealed.last.ret.tick = last.ret.tick
       /\ sealed.last.ret.angle_deg = last.ret.angle_deg
       /\ sealed.last.ret.rot_mod = last.ret.rot_mod
       /\ sealed.last.ret.quad_caps = last.ret.quad_caps
       /\ sealed.last.ret.backlog = last.ret.backlog
       /\ sealed.last.ret.scheduled =
            [k \in 1..Len(last.ret.scheduled) |->
               <<last.ret.scheduled[k][1], last.ret.scheduled[k][2],
                 last.ret.scheduled[k][3].id>>]

\* C29: whenever the sealed engine and the engine of re.py on
\* KernelAllocator() have had the same calls, the last of them a step, that
\* step raised in both or returned in both, with the same tick, angle,
\* rotation modifier, capacities, scheduled (category, lane id, item id) and
\* backlog.
SealedEquivalent == SameCallsToStep => SameReport

\* C30: before the first tick, after enqueues without lane_hint into empty
\* quadrants, the queue lengths of any two lanes of a quadrant differ by at
\* most 1.
BalancedPlacement ==
  tick = 0 =>
    \A q \in QuadNames : \A i \in LaneIdx : \A j \in LaneIdx :
      Len(quads[q].lanes[i].queue) - Len(quads[q].lanes[j].queue) <= 1

\* all 114 items of the demo are placed: Cost's lanes hold 5 each, Revenue's
\* 4 or 3
DemoPlaced ==
  /\ tick = 0
  /\ last.op = "enqueue" /\ last.lane_hint = PyNone
  /\ next_id = DemoItems
  /\ \A i \in LaneIdx : Len(quads["Cost"].lanes[i].queue) = 5
  /\ Len(quads["Revenue"].lanes[0].queue) = 4
  /\ Len(quads["Revenue"].lanes[7].queue) = 3

=============================================================================
